---- MODULE Spec2Model ----
(***************************************************************************)
(* Model of the robot-monitor web interface:                               *)
(*   - ROSWebSocketService (src/src/services/websocket.ts): one client of  *)
(*     a rosbridge server with automatic reconnection,                     *)
(*   - parsePgmFile and its fallbacks (src/src/components/Map/             *)
(*     MapCanvas.tsx): the decoder of a binary PGM raster,                 *)
(*   - MapParser.worldToPixel / pixelToWorld,                              *)
(*   - parseYamlMetadata: the decoder of the map description.              *)
(***************************************************************************)
EXTENDS Integers, Sequences, FiniteSets, TLC

VARIABLES
    \* ---- ROSWebSocketService ----
    ws,                     \* this.ws: "NULL", or the readyState of the WebSocket it references
    orphans,                \* WebSockets the client created, this.ws references no more and
                            \* that are not closed yet: how many in each readyState
    reconnectAttempts,      \* this.reconnectAttempts
    timers,                 \* number of pending setTimeout callbacks of handleReconnect
    subscribers,            \* this.subscribers: topic -> handler (NoHandler: no entry)
    connectionCallbacks,    \* this.connectionCallbacks
    disconnectionCallbacks, \* this.disconnectionCallbacks
    obs,                    \* what the last step did: event, listeners fired, handler invoked, frames sent
    hist,                   \* history of the caller's requests (what the claims speak about)
    \* ---- parsePgmFile ----
    pgmFile,                \* the File given to parsePgmFile
    pgmDecoded,             \* what the decoders make of its bytes
    pgmPc,                  \* the read the promise is waiting for
    pgmPromise,             \* the promise parsePgmFile returned
    pgmImg,                 \* the Image of tryCanvasFallback: "none", "loading" or "done"
    pgmTimer,               \* the 10 s timer of tryCanvasFallback: "none", "pending" or "fired"
    \* ---- MapParser.worldToPixel / pixelToWorld ----
    mapData,                \* the MapData the transforms are given
    point,                  \* the point the caller holds: [frame, x, y]
    given,                  \* the point the caller started from
    applied,                \* the transforms applied to it, in order
    operand,                \* the world point the last worldToPixel divided
    \* ---- parseYamlMetadata ----
    yamlFile,               \* the File given to parseYamlMetadata
    yamlPc,                 \* the read the promise is waiting for
    yamlPromise,            \* the promise parseYamlMetadata returned
    \* ---- MapParser.loadMapFromFiles / MapSelector.loadMap ----
    loader,                 \* which of the two assembles the map
    loaderPc,               \* the await it stands at
    finalMapData,           \* the map it delivered, if any
    \* ---- useWebSocket: the service of one mounted hook ----
    hookWs,                 \* readyState of the WebSocket its this.ws references
    hookAttempts,           \* its this.reconnectAttempts
    hookTimer,              \* a setTimeout callback of handleReconnect is pending
    hookSubscribers,        \* topics its this.subscribers holds a handler for
    hookSent,               \* topics a subscribe frame was sent for on the WebSocket this.ws references
    hookNotified,           \* the listeners invoked last: "none", "connection" or "disconnection"
    hookAuto,               \* the WebSocket was created by a reconnect timer
    hookReceived,           \* topics whose handler was invoked for a frame of that WebSocket
    \* ---- App: the current map ----
    installer,              \* what loads the map: "loadMap" or "loadMapForBothSystems"
    localMapData,           \* the map setLocalMapData was given, if any
    \* ---- PointDataService ----
    pointFile,              \* the point-data file the server stores: map name -> entry
    pointCalls,             \* the addPointToMap calls under way: arguments, await and local data
    \* ---- serving map files ----
    request,                \* the request for a map file: operation, filename, file on disk or not
    response                \* the answer: status and the path of the file that was read, if any

wsVars == <<ws, orphans, reconnectAttempts, timers, subscribers,
            connectionCallbacks, disconnectionCallbacks, obs, hist>>

pgmVars == <<pgmFile, pgmDecoded, pgmPc, pgmPromise, pgmImg, pgmTimer>>

coordVars == <<mapData, point, given, applied, operand>>

yamlVars == <<yamlFile, yamlPc, yamlPromise>>

loaderVars == <<loader, loaderPc, finalMapData>>

hookVars == <<hookWs, hookAttempts, hookTimer, hookSubscribers, hookSent, hookNotified, hookAuto,
              hookReceived>>

appVars == <<installer, localMapData>>

pointVars == <<pointFile, pointCalls>>

serveVars == <<request, response>>

vars == <<wsVars, pgmVars, coordVars, yamlVars, loaderVars, hookVars, appVars, pointVars, serveVars>>

nonWsVars == <<pgmVars, coordVars, yamlVars, loaderVars, hookVars, appVars, pointVars, serveVars>>
nonPgmVars == <<wsVars, coordVars, yamlVars, loaderVars, hookVars, appVars, pointVars, serveVars>>
nonCoordVars == <<wsVars, pgmVars, yamlVars, loaderVars, hookVars, appVars, pointVars, serveVars>>
nonYamlVars == <<wsVars, pgmVars, coordVars, loaderVars, hookVars, appVars, pointVars, serveVars>>
nonLoaderVars == <<wsVars, pgmVars, coordVars, hookVars, appVars, pointVars, serveVars>>
nonHookVars == <<wsVars, pgmVars, coordVars, yamlVars, loaderVars, appVars, pointVars, serveVars>>
nonAppVars == <<wsVars, coordVars, yamlVars, loaderVars, hookVars, pointVars, serveVars>>
nonPointVars == <<wsVars, pgmVars, coordVars, yamlVars, loaderVars, hookVars, appVars, serveVars>>
nonServeVars == <<wsVars, pgmVars, coordVars, yamlVars, loaderVars, hookVars, appVars, pointVars>>

(***************************************************************************)
(* Bounds of the model.                                                    *)
(***************************************************************************)
MaxSockets == 2      \* WebSockets of the client that are not closed, at one time
MaxTimers == 1       \* pending reconnect timers at one time

(***************************************************************************)
(* Program constants.                                                      *)
(***************************************************************************)
maxReconnectAttempts == 5

\* Topic names: an ordinary one and the empty string.
Topics == {"a", ""}
Handlers == {"h1", "h2"}
NoHandler == "none"
MessageTypes == {"t"}
Listeners == {"l1"}

\* The subscribe calls made: two handlers for topic "a", one for topic "".
SubscribeCalls == {<<"a", "h1">>, <<"a", "h2">>, <<"", "h1">>}

\* readyState of a WebSocket that still delivers events.
ReadyStates == {"CONNECTING", "OPEN", "CLOSING"}

\* Inbound frames: a frame {topic, msg} per topic, one for a topic nobody
\* subscribes to, and one that is not JSON (it has no topic: "#" stands for
\* that).
InboundFrames ==
    [kind : {"json"}, topic : Topics \cup {"zz"}] \cup {[kind |-> "garbage", topic |-> "#"]}

\* obs: ev is the operation or event of the last step; fired, the listener
\* list it invoked; topic and arg, the topic and handler it was given;
\* handler, the subscription handler it invoked; out, the frames it sent.
Quiet == [ev |-> "init", fired |-> "none", topic |-> "", arg |-> NoHandler,
          handler |-> NoHandler, out |-> {}]

Min(a, b) == IF a < b THEN a ELSE b

Range(q) == {q[i] : i \in 1..Len(q)}

\* this.ws?.readyState === WebSocket.OPEN
isConnected == ws = "OPEN"

\* WebSockets of the client that are connecting or open.
LiveSockets ==
    orphans["CONNECTING"] + orphans["OPEN"] + (IF ws \in {"CONNECTING", "OPEN"} THEN 1 ELSE 0)

\* WebSockets of the client that are not closed.
Unclosed == LiveSockets + orphans["CLOSING"]

WsInit ==
    /\ ws = "NULL"
    /\ orphans = [r \in ReadyStates |-> 0]
    /\ reconnectAttempts = 0
    /\ timers = 0
    /\ subscribers = [t \in Topics |-> NoHandler]
    /\ connectionCallbacks = <<>>
    /\ disconnectionCallbacks = <<>>
    /\ obs = Quiet
    \* hist.afterDisconnect: disconnect() was called and connect() was not since.
    \* hist.cancelledConnecting: that disconnect() found the only socket CONNECTING.
    \* hist.autoSinceOpen: connect() calls made by reconnect timers since the last open.
    \* hist.lastCall: handler of the last subscribe("a", ...) call; lastOpenCall: of
    \* the last one made while the transport was open; replaced: that one replaced
    \* another handler.
    /\ hist = [afterDisconnect |-> FALSE, cancelledConnecting |-> FALSE,
               autoSinceOpen |-> 0, lastCall |-> NoHandler, lastOpenCall |-> NoHandler,
               replaced |-> FALSE]

(***************************************************************************)
(* connect(): this.ws = new WebSocket(url) and the four handlers are set.  *)
(* The socket this.ws referenced keeps its handlers: if it is not closed   *)
(* it lives on as an orphan. Used by the caller and by the timer of        *)
(* handleReconnect.                                                        *)
(***************************************************************************)
connect ==
    /\ orphans' = IF ws \in {"CONNECTING", "OPEN"} THEN [orphans EXCEPT ![ws] = @ + 1] ELSE orphans
    /\ ws' = "CONNECTING"

\* handleReconnect(): the counter after the call and the timers it leaves pending.
handleReconnectAttempts ==
    IF reconnectAttempts < maxReconnectAttempts THEN reconnectAttempts + 1 ELSE reconnectAttempts

\* Faulty variant: the attempt is counted and no timer is set.
handleReconnectTimers_notSet == timers

handleReconnectTimers ==
    IF reconnectAttempts < maxReconnectAttempts THEN timers + 1 ELSE timers

\* The caller calls connect(). A pending timer will need room for the socket
\* it creates.
Connect ==
    /\ Unclosed + timers < MaxSockets
    /\ connect
    /\ obs' = [Quiet EXCEPT !.ev = "connect"]
    /\ hist' = [hist EXCEPT !.afterDisconnect = FALSE, !.cancelledConnecting = FALSE]
    /\ UNCHANGED <<reconnectAttempts, timers, subscribers, connectionCallbacks, disconnectionCallbacks>>
    /\ UNCHANGED nonWsVars

\* The timer set by handleReconnect fires: this.connect().catch(() => {}).
TimerFires ==
    /\ timers > 0
    /\ Unclosed < MaxSockets
    /\ timers' = timers - 1
    /\ connect
    /\ obs' = [Quiet EXCEPT !.ev = "timer"]
    /\ hist' = [hist EXCEPT !.autoSinceOpen = Min(hist.autoSinceOpen + 1, maxReconnectAttempts + 1)]
    /\ UNCHANGED <<reconnectAttempts, subscribers, connectionCallbacks, disconnectionCallbacks>>
    /\ UNCHANGED nonWsVars

\* ws.onopen: this.reconnectAttempts = 0 and the connection listeners are called.
onopen ==
    /\ reconnectAttempts' = 0
    /\ obs' = [Quiet EXCEPT !.ev = "open",
                            !.fired = IF connectionCallbacks # <<>> THEN "connection" ELSE "none"]
    /\ hist' = [hist EXCEPT !.autoSinceOpen = 0]
    /\ UNCHANGED <<timers, subscribers, connectionCallbacks, disconnectionCallbacks>>

\* The socket this.ws references opens.
OnOpen ==
    /\ ws = "CONNECTING"
    /\ ws' = "OPEN"
    /\ UNCHANGED orphans
    /\ onopen
    /\ UNCHANGED nonWsVars

\* An orphan opens.
OnOpenOrphan ==
    /\ orphans["CONNECTING"] > 0
    /\ orphans' = [orphans EXCEPT !["CONNECTING"] = @ - 1, !["OPEN"] = @ + 1]
    /\ UNCHANGED ws
    /\ onopen
    /\ UNCHANGED nonWsVars

\* Faulty variant: the topic of the frame is not looked at.
Dispatch_anyTopic(f) ==
    IF f.kind = "json" THEN subscribers["a"] ELSE NoHandler

\* The handler subscribers holds for the topic of an inbound frame, if the
\* frame parses as JSON and has a truthy topic.
Dispatch(f) ==
    IF f.kind = "json" /\ f.topic # "" /\ f.topic \in Topics
    THEN subscribers[f.topic]
    ELSE NoHandler

\* Faulty variant: a socket whose close() was called still delivers messages.
OnMessage_whileClosing(f) ==
    /\ ws = "OPEN" \/ orphans["OPEN"] > 0 \/ orphans["CLOSING"] > 0
    /\ obs' = [Quiet EXCEPT !.ev = "message", !.topic = f.topic, !.handler = Dispatch(f)]
    /\ UNCHANGED <<ws, orphans, reconnectAttempts, timers, subscribers,
                   connectionCallbacks, disconnectionCallbacks, hist>>
    /\ UNCHANGED nonWsVars

\* ws.onmessage of a socket of the client; a socket delivers messages only
\* while OPEN.
OnMessage(f) ==
    /\ ws = "OPEN" \/ orphans["OPEN"] > 0
    /\ obs' = [Quiet EXCEPT !.ev = "message", !.topic = f.topic, !.handler = Dispatch(f)]
    /\ UNCHANGED <<ws, orphans, reconnectAttempts, timers, subscribers,
                   connectionCallbacks, disconnectionCallbacks, hist>>
    /\ UNCHANGED nonWsVars

\* ws.onclose: the disconnection listeners are called, then handleReconnect().
onclose ==
    /\ timers < MaxTimers \/ reconnectAttempts >= maxReconnectAttempts
    /\ reconnectAttempts' = handleReconnectAttempts
    /\ timers' = handleReconnectTimers
    /\ obs' = [Quiet EXCEPT !.ev = "close",
                            !.fired = IF disconnectionCallbacks # <<>> THEN "disconnection" ELSE "none"]
    /\ UNCHANGED <<subscribers, connectionCallbacks, disconnectionCallbacks, hist>>

\* The socket this.ws references closes: its connection failed (CONNECTING)
\* or was lost (OPEN).
OnClose ==
    /\ ws \in {"CONNECTING", "OPEN"}
    /\ ws' = "CLOSED"
    /\ UNCHANGED orphans
    /\ onclose
    /\ UNCHANGED nonWsVars

\* An orphan closes: its connection failed or was lost, or the closing
\* handshake that close() started has ended (CLOSING).
OnCloseOrphan(r) ==
    /\ orphans[r] > 0
    /\ orphans' = [orphans EXCEPT ![r] = @ - 1]
    /\ UNCHANGED ws
    /\ onclose
    /\ UNCHANGED nonWsVars

\* Faulty variant: a topic keeps the handler it has.
Subscribe_keepFirst(t, ty, h) ==
    /\ IF ~isConnected
       THEN /\ obs' = [Quiet EXCEPT !.ev = "subscribe", !.topic = t, !.arg = h]
            /\ UNCHANGED subscribers
       ELSE /\ subscribers' = [subscribers EXCEPT ![t] = IF @ = NoHandler THEN h ELSE @]
            /\ obs' = [Quiet EXCEPT !.ev = "subscribe", !.topic = t, !.arg = h,
                        !.out = {[op |-> "subscribe", topic |-> t, type |-> ty]}]
    /\ hist' = IF t # "a" THEN hist
               ELSE [hist EXCEPT
                        !.lastCall = h,
                        !.lastOpenCall = IF isConnected THEN h ELSE @,
                        !.replaced = IF isConnected THEN hist.lastOpenCall \notin {NoHandler, h} ELSE @]
    /\ UNCHANGED <<ws, orphans, reconnectAttempts, timers, connectionCallbacks, disconnectionCallbacks>>
    /\ UNCHANGED nonWsVars

\* Faulty variant: the handler is recorded before the connection is looked at.
Subscribe_recordFirst(t, ty, h) ==
    /\ subscribers' = [subscribers EXCEPT ![t] = h]
    /\ obs' = IF ~isConnected
              THEN [Quiet EXCEPT !.ev = "subscribe", !.topic = t, !.arg = h]
              ELSE [Quiet EXCEPT !.ev = "subscribe", !.topic = t, !.arg = h,
                        !.out = {[op |-> "subscribe", topic |-> t, type |-> ty]}]
    /\ hist' = IF t # "a" THEN hist
               ELSE [hist EXCEPT
                        !.lastCall = h,
                        !.lastOpenCall = IF isConnected THEN h ELSE @,
                        !.replaced = IF isConnected THEN hist.lastOpenCall \notin {NoHandler, h} ELSE @]
    /\ UNCHANGED <<ws, orphans, reconnectAttempts, timers, connectionCallbacks, disconnectionCallbacks>>
    /\ UNCHANGED nonWsVars

\* subscribe(topic, messageType, callback)
Subscribe(t, ty, h) ==
    /\ IF ~isConnected
       THEN /\ obs' = [Quiet EXCEPT !.ev = "subscribe", !.topic = t, !.arg = h]
            /\ UNCHANGED subscribers
       ELSE /\ subscribers' = [subscribers EXCEPT ![t] = h]
            /\ obs' = [Quiet EXCEPT !.ev = "subscribe", !.topic = t, !.arg = h,
                        !.out = {[op |-> "subscribe", topic |-> t, type |-> ty]}]
    /\ hist' = IF t # "a" THEN hist
               ELSE [hist EXCEPT
                        !.lastCall = h,
                        !.lastOpenCall = IF isConnected THEN h ELSE @,
                        !.replaced = IF isConnected THEN hist.lastOpenCall \notin {NoHandler, h} ELSE @]
    /\ UNCHANGED <<ws, orphans, reconnectAttempts, timers, connectionCallbacks, disconnectionCallbacks>>
    /\ UNCHANGED nonWsVars

\* Faulty variant: the frame is sent whatever the state of the socket.
Publish_noGuard(t, ty) ==
    /\ obs' = [Quiet EXCEPT !.ev = "publish",
                        !.out = {[op |-> "publish", topic |-> t, type |-> ty]}]
    /\ UNCHANGED <<ws, orphans, reconnectAttempts, timers, subscribers,
                   connectionCallbacks, disconnectionCallbacks, hist>>
    /\ UNCHANGED nonWsVars

\* publish(topic, messageType, message)
Publish(t, ty) ==
    /\ obs' = IF ~isConnected
              THEN [Quiet EXCEPT !.ev = "publish"]
              ELSE [Quiet EXCEPT !.ev = "publish",
                        !.out = {[op |-> "publish", topic |-> t, type |-> ty]}]
    /\ UNCHANGED <<ws, orphans, reconnectAttempts, timers, subscribers,
                   connectionCallbacks, disconnectionCallbacks, hist>>
    /\ UNCHANGED nonWsVars

\* advertise(topic, messageType)
Advertise(t, ty) ==
    /\ obs' = IF ~isConnected
              THEN [Quiet EXCEPT !.ev = "advertise"]
              ELSE [Quiet EXCEPT !.ev = "advertise",
                        !.out = {[op |-> "advertise", topic |-> t, type |-> ty]}]
    /\ UNCHANGED <<ws, orphans, reconnectAttempts, timers, subscribers,
                   connectionCallbacks, disconnectionCallbacks, hist>>
    /\ UNCHANGED nonWsVars

\* onConnection(callback); each listener of Listeners registers once.
OnConnection(l) ==
    /\ l \notin Range(connectionCallbacks)
    /\ connectionCallbacks' = Append(connectionCallbacks, l)
    /\ obs' = [Quiet EXCEPT !.ev = "onConnection"]
    /\ UNCHANGED <<ws, orphans, reconnectAttempts, timers, subscribers, disconnectionCallbacks, hist>>
    /\ UNCHANGED nonWsVars

\* onDisconnection(callback); each listener of Listeners registers once.
OnDisconnection(l) ==
    /\ l \notin Range(disconnectionCallbacks)
    /\ disconnectionCallbacks' = Append(disconnectionCallbacks, l)
    /\ obs' = [Quiet EXCEPT !.ev = "onDisconnection"]
    /\ UNCHANGED <<ws, orphans, reconnectAttempts, timers, subscribers, connectionCallbacks, hist>>
    /\ UNCHANGED nonWsVars

\* Is the socket this.ws references the client's only activity?
SoleAttempt ==
    /\ ws = "CONNECTING"
    /\ Unclosed = 1
    /\ timers = 0

\* disconnect(): if (this.ws) { this.ws.close(); this.ws = null; }
\* close() leaves the handlers in place and starts the closing of an open or
\* connecting socket, whose close event follows; on a closed socket it does
\* nothing.
Disconnect ==
    /\ orphans' = IF ws \in {"CONNECTING", "OPEN"} THEN [orphans EXCEPT !["CLOSING"] = @ + 1] ELSE orphans
    /\ ws' = "NULL"
    /\ obs' = [Quiet EXCEPT !.ev = "disconnect"]
    /\ hist' = [hist EXCEPT !.afterDisconnect = TRUE, !.cancelledConnecting = SoleAttempt]
    /\ UNCHANGED <<reconnectAttempts, timers, subscribers, connectionCallbacks, disconnectionCallbacks>>
    /\ UNCHANGED nonWsVars

Next ==
    \/ Connect
    \/ Disconnect
    \/ TimerFires
    \/ OnOpen
    \/ OnOpenOrphan
    \/ OnClose
    \/ \E r \in ReadyStates : OnCloseOrphan(r)
    \/ \E f \in InboundFrames : OnMessage(f)
    \/ \E c \in SubscribeCalls, ty \in MessageTypes : Subscribe(c[1], ty, c[2])
    \/ \E t \in Topics, ty \in MessageTypes : Publish(t, ty)
    \/ \E t \in Topics, ty \in MessageTypes : Advertise(t, ty)
    \/ \E l \in Listeners : OnConnection(l)
    \/ \E l \in Listeners : OnDisconnection(l)


(***************************************************************************)
(* parsePgmFile. A file is a sequence of bytes (0..255); a JavaScript      *)
(* string made with String.fromCharCode is the same sequence.              *)
(***************************************************************************)
LF == 10
CR == 13
TAB == 9
SPACE == 32
HASH == 35
MINUS == 45
PLUS == 43
ZERO == 48

\* Characters String.prototype.trim removes and \s matches, among 0..255.
IsSpace(c) == c \in {9, 10, 11, 12, 13, 32, 160}

IsDigit(c) == c >= ZERO /\ c <= ZERO + 9

Max(a, b) == IF a > b THEN a ELSE b

\* str.split(/\r?\n/)
RECURSIVE SplitLines(_)
SplitLines(str) ==
    LET nl == {i \in 1..Len(str) : str[i] = LF} IN
    IF nl = {} THEN <<str>>
    ELSE LET i == CHOOSE k \in nl : \A m \in nl : k <= m
             e == IF i > 1 /\ str[i - 1] = CR THEN i - 2 ELSE i - 1
         IN <<SubSeq(str, 1, e)>> \o SplitLines(SubSeq(str, i + 1, Len(str)))

\* str.trim()
Trim(str) ==
    LET keep == {i \in 1..Len(str) : ~IsSpace(str[i])} IN
    IF keep = {} THEN <<>>
    ELSE SubSeq(str, CHOOSE k \in keep : \A m \in keep : k <= m,
                     CHOOSE k \in keep : \A m \in keep : k >= m)

\* str.split(/\s+/)
RECURSIVE SplitSpaces(_)
SplitSpaces(str) ==
    LET sp == {i \in 1..Len(str) : IsSpace(str[i])} IN
    IF sp = {} THEN <<str>>
    ELSE LET i == CHOOSE k \in sp : \A m \in sp : k <= m
             after == {k \in (i + 1)..Len(str) : ~IsSpace(str[k])}
             j == IF after = {} THEN Len(str) + 1 ELSE CHOOSE k \in after : \A m \in after : k <= m
         IN <<SubSeq(str, 1, i - 1)>> \o SplitSpaces(SubSeq(str, j, Len(str)))

NonEmpty(str) == str # <<>>

\* The value of a sequence of decimal digits.
RECURSIVE DigitsValue(_)
DigitsValue(ds) ==
    IF ds = <<>> THEN 0
    ELSE 10 * DigitsValue(SubSeq(ds, 1, Len(ds) - 1)) + (ds[Len(ds)] - ZERO)

NaN == [nan |-> TRUE, val |-> 0]

Num(n) == [nan |-> FALSE, val |-> n]

\* parseInt(str) for strings without a "0x" prefix: leading white space and
\* one sign are skipped, the longest run of decimal digits is the value, and
\* the result is NaN when there is no digit.
parseInt(str) ==
    LET body == {i \in 1..Len(str) : ~IsSpace(str[i])}
        b == IF body = {} THEN Len(str) + 1 ELSE CHOOSE k \in body : \A m \in body : k <= m
        signed == b <= Len(str) /\ str[b] \in {MINUS, PLUS}
        d == IF signed THEN b + 1 ELSE b
        stop == {k \in d..Len(str) : ~IsDigit(str[k])}
        e == IF stop = {} THEN Len(str) ELSE (CHOOSE k \in stop : \A m \in stop : k <= m) - 1
    IN IF e < d THEN NaN
       ELSE Num((IF signed /\ str[b] = MINUS THEN -1 ELSE 1) * DigitsValue(SubSeq(str, d, e)))

\* isNaN(x) for x a result of parseInt or undefined.
isNaN(x) == x.nan

\* n.toString() of an integer.
RECURSIVE NatToString(_)
NatToString(n) ==
    IF n < 10 THEN <<ZERO + n>> ELSE NatToString(n \div 10) \o <<ZERO + (n % 10)>>

toString(n) == IF n < 0 THEN <<MINUS>> \o NatToString(-n) ELSE NatToString(n)

\* The 0-based positions at which needle occurs in str.
Occurrences(str, needle) ==
    {i \in 0..(Len(str) - Len(needle)) : SubSeq(str, i + 1, i + Len(needle)) = needle}

\* str.includes(needle)
includes(str, needle) == Occurrences(str, needle) # {}

\* str.lastIndexOf(needle)
lastIndexOf(str, needle) ==
    LET occ == Occurrences(str, needle) IN
    IF occ = {} THEN -1 ELSE CHOOSE k \in occ : \A m \in occ : k >= m

\* view.slice(from, to) or arrayBuffer.slice(from), 0-based, to excluded.
slice(view, from, to) == SubSeq(view, from + 1, to)

\* new Array(n).fill(v)
Fill(n, v) == [i \in 1..n |-> v]

WidthOfDummy == 100
HeightOfDummy == 100
CellsOfDummy == 10000
Unknown == 0 - 1
White == 255
MinFileSize == 20
HeaderScan == 1000
FallbackHeaderScan == 200
LookBehind == 10

\* createDummyMap(reason), and the literal placeholder maps of the fallbacks.
createDummyMap == [width |-> WidthOfDummy, height |-> HeightOfDummy, data |-> Fill(CellsOfDummy, Unknown)]

\* new Array(n) throws a RangeError for a negative n (and for n >= 2^32,
\* which no file of the model declares).
ArrayThrows(n) == n < 0

\* The header scan of reader.onload: the text up to and including the first
\* byte below 32 that is not \n, \r or \t, among the first 1000 bytes.
BinaryAt(view, limit, keepTab) ==
    {i \in 1..Min(Len(view), limit) :
        view[i] < 32 /\ view[i] # LF /\ view[i] # CR /\ (keepTab => view[i] # TAB)}

FirstOf(S) == CHOOSE k \in S : \A m \in S : k <= m

headerStrOf(view, limit, keepTab) ==
    LET bin == BinaryAt(view, limit, keepTab) IN
    IF bin = {} THEN SubSeq(view, 1, Min(Len(view), limit)) ELSE SubSeq(view, 1, FirstOf(bin))

\* headerEnd: 0-based index of that byte, 0 when there is none.
headerEndOf(view) ==
    LET bin == BinaryAt(view, HeaderScan, TRUE) IN
    IF bin = {} THEN 0 ELSE FirstOf(bin) - 1

\* validLines: the trimmed header lines that are not empty and not comments.
validLinesOf(headerStr) ==
    LET trimmed == [i \in 1..Len(SplitLines(headerStr)) |-> Trim(SplitLines(headerStr)[i])]
    IN SelectSeq(trimmed, LAMBDA l : l # <<>> /\ l[1] # HASH)

\* The search for the byte after the newline that ends the maxval line.
actualHeaderEndOf(view, maxval) ==
    LET p5 == {p \in 0..(Len(view) - 2) : view[p + 1] = 80 /\ view[p + 2] = 53}
        start == IF p5 = {} THEN Max(Len(view) - 1, 0) ELSE FirstOf(p5)
        hits == {q \in start..(Len(view) - 1) :
                    /\ view[q + 1] = LF
                    /\ includes(slice(view, Max(0, q - LookBehind), q), toString(maxval))}
    IN IF hits = {} THEN 0 ELSE FirstOf(hits) + 1

\* Faulty variant: the cells are the bytes at hand, without the fill.
pixelCopy_noFill(pixelData, expectedSize) ==
    [i \in 1..Min(Len(pixelData), expectedSize) |-> pixelData[i]]

\* The pixel copy: expectedSize cells, white where the payload has no byte.
pixelCopy(pixelData, expectedSize) ==
    [i \in 1..expectedSize |-> IF i <= Len(pixelData) THEN pixelData[i] ELSE White]

\* reader.onload of startParsing: the map the promise is resolved with.
decodePgm(view) ==
    LET validLines == validLinesOf(headerStrOf(view, HeaderScan, TRUE))
        dimensionParts == SelectSeq(SplitSpaces(validLines[2]), NonEmpty)
        width == parseInt(dimensionParts[1])
        height == parseInt(dimensionParts[2])
        maxval == parseInt(validLines[3])
        found == actualHeaderEndOf(view, maxval.val)
        actualHeaderEnd == IF found = 0 THEN headerEndOf(view) ELSE found
        pixelData == slice(view, actualHeaderEnd, Len(view))
        expectedSize == width.val * height.val
    IN  IF Len(validLines) < 3 THEN createDummyMap
        ELSE IF validLines[1] # <<80, 53>> THEN createDummyMap
        ELSE IF Len(dimensionParts) # 2 THEN createDummyMap
        ELSE IF isNaN(width) \/ isNaN(height) \/ isNaN(maxval) THEN createDummyMap
        ELSE IF ArrayThrows(expectedSize) THEN createDummyMap
        ELSE [width |-> width.val, height |-> height.val, data |-> pixelCopy(pixelData, expectedSize)]

\* The tri-state occupancy value the fallbacks give a grey level.
occupancy(pixel) == IF pixel >= 250 THEN 0 ELSE IF pixel <= 50 THEN 100 ELSE Unknown

Throws == [throws |-> TRUE]

\* The then-handler of fetch in tryUrlFallback: the map it resolves the
\* promise with, or Throws when it throws (the catch handler goes on with
\* tryDataUrlFallback).
decodePgmFallback(view) ==
    LET headerStr == headerStrOf(view, FallbackHeaderScan, FALSE)
        lines == SelectSeq(SplitLines(headerStr), LAMBDA l : Trim(l) # <<>> /\ l[1] # HASH)
        parts == SplitSpaces(lines[2])
        width == parseInt(parts[1])
        height == IF Len(parts) >= 2 THEN parseInt(parts[2]) ELSE NaN
        maxval == parseInt(lines[3])
        headerEnd == lastIndexOf(headerStr, toString(maxval.val)) + Len(toString(maxval.val)) + 1
        pixelData == slice(view, headerEnd, Len(view))
        expectedSize == width.val * height.val
    IN  IF Len(lines) < 3 THEN Throws
        ELSE IF lines[1] # <<80, 53>> THEN Throws
        ELSE IF isNaN(width) \/ isNaN(height) \/ isNaN(maxval) THEN Throws
        ELSE IF ArrayThrows(expectedSize) THEN Throws
        ELSE [width |-> width.val, height |-> height.val,
              data |-> [i \in 1..expectedSize |->
                            IF i <= Len(pixelData) THEN occupancy(pixelData[i]) ELSE Unknown]]

\* img.onload of tryCanvasFallback for an image of w x h pixels, all of grey
\* level gray: the occupancy grid of the canvas; the placeholder when the
\* canvas gives no context or no image data (getImageData of an empty canvas
\* throws).
decodeCanvas(w, h, gray, ctxOk) ==
    IF ~ctxOk \/ w = 0 \/ h = 0 THEN createDummyMap
    ELSE [width |-> w, height |-> h, data |-> [i \in 1..(w * h) |-> occupancy(gray)]]

(***************************************************************************)
(* Files given to parsePgmFile.                                            *)
(***************************************************************************)
Code ==
    [c \in {"P", "5", "X", "#", " ", "-", "a", "b", "x", "0", "1", "2", "3", "4", "6", "\n", "\r", "\t",
            ":", ",", "[", "]", ".", "r", "e", "s", "o", "l", "u", "t", "i", "n", "g", "m"} |->
        CASE c = "P" -> 80 [] c = "5" -> 53 [] c = "X" -> 88 [] c = "#" -> HASH [] c = " " -> SPACE
          [] c = "-" -> MINUS [] c = "a" -> 97 [] c = "b" -> 98 [] c = "x" -> 120
          [] c = "0" -> 48 [] c = "1" -> 49 [] c = "2" -> 50 [] c = "3" -> 51 [] c = "4" -> 52
          [] c = "6" -> 54 [] c = "\n" -> LF [] c = "\r" -> CR [] c = "\t" -> TAB
          [] c = ":" -> 58 [] c = "," -> 44 [] c = "[" -> 91 [] c = "]" -> 93 [] c = "." -> 46
          [] c = "r" -> 114 [] c = "e" -> 101 [] c = "s" -> 115 [] c = "o" -> 111 [] c = "l" -> 108
          [] c = "u" -> 117 [] c = "t" -> 116 [] c = "i" -> 105 [] c = "n" -> 110 [] c = "g" -> 103
          [] c = "m" -> 109]

Bytes(chars) == [i \in 1..Len(chars) |-> Code[chars[i]]]

\* Cell values by position, for a raster or a payload of n cells.
Patterns == {"black", "ramp", "grey", "text"}

Cell(pattern, i, maxval) ==
    CASE pattern = "black" -> 0
      [] pattern = "ramp" -> (i * 37) % (maxval + 1)
      [] pattern = "grey" -> IF maxval < 205 THEN maxval ELSE IF i % 2 = 0 THEN 205 ELSE 254
      [] pattern = "text" -> IF maxval < 53 THEN i % 2 ELSE <<LF, HASH, 50, 53, 53, LF, SPACE, CR>>[(i % 8) + 1]

Payload(pattern, n, maxval) == [i \in 1..n |-> Cell(pattern, i, maxval)]

NoGrid == [width |-> 0, height |-> 0, data |-> <<>>]

\* A well-formed raster and its encoding: the lines "P5", "WIDTH HEIGHT" and
\* "MAXVAL", then the cells, one byte each.
Grid(w, h, pattern, maxval) == [width |-> w, height |-> h, data |-> Payload(pattern, w * h, maxval)]

Encode(grid, maxval) ==
    <<80, 53, LF>> \o toString(grid.width) \o <<SPACE>> \o toString(grid.height) \o <<LF>>
        \o toString(maxval) \o <<LF>> \o grid.data

GridDims == {<<1, 1>>, <<3, 3>>, <<4, 4>>, <<2, 5>>, <<15, 2>>, <<10, 10>>}
Maxvals == {255, 15}

WellFormedFiles ==
    {[bytes |-> Encode(Grid(d[1], d[2], p, m), m), pgmName |-> TRUE, kind |-> "wellformed",
      grid |-> Grid(d[1], d[2], p, m), payload |-> d[1] * d[2]] :
        d \in GridDims, p \in Patterns, m \in Maxvals}

\* A header made of the given lines, each ended by eol, and a payload.
HeaderBytes(hdr, eol) ==
    LET RECURSIVE Join(_)
        Join(ls) == IF ls = <<>> THEN <<>> ELSE Bytes(Head(ls)) \o eol \o Join(Tail(ls))
    IN Join(hdr)

\* Headers declaring 4 x 4 cells in various spellings, and malformed ones.
Headers ==
    [plain     |-> << <<"P", "5">>, <<"4", " ", "4">>, <<"2", "5", "5">> >>,
     comment   |-> << <<"P", "5">>, <<"#", " ", "a", "b">>, <<"4", " ", "4">>, <<"2", "5", "5">> >>,
     spaced    |-> << <<"P", "5", " ">>, <<" ", "4", "\t", " ", "4", " ">>, <<"2", "5", "5">> >>,
     marker    |-> << <<"X", "X">>, <<"4", " ", "4">>, <<"2", "5", "5">> >>,
     onedim    |-> << <<"P", "5">>, <<"1", "6">>, <<"2", "5", "5">> >>,
     threedims |-> << <<"P", "5">>, <<"4", " ", "4", " ", "4">>, <<"2", "5", "5">> >>,
     alpha     |-> << <<"P", "5">>, <<"a", "b", " ", "4">>, <<"2", "5", "5">> >>,
     badmax    |-> << <<"P", "5">>, <<"4", " ", "4">>, <<"x", "x">> >>,
     negative  |-> << <<"P", "5">>, <<"-", "4", " ", "4">>, <<"2", "5", "5">> >>,
     negboth   |-> << <<"P", "5">>, <<"-", "4", " ", "-", "4">>, <<"2", "5", "5">> >>,
     zero      |-> << <<"P", "5">>, <<"0", " ", "4">>, <<"2", "5", "5">> >>,
     twolines  |-> << <<"P", "5">>, <<"#", "4", " ", "4">>, <<"4", " ", "4">> >>]

HeaderKinds == DOMAIN Headers

Eols == {<<LF>>, <<CR, LF>>}

\* Payload lengths around the 16 cells the headers declare.
PayloadLengths == {16, 11, 19}

HeaderFiles ==
    {[bytes |-> HeaderBytes(Headers[k], e) \o Payload(p, n, 255), pgmName |-> TRUE, kind |-> k,
      grid |-> NoGrid, payload |-> n] :
        k \in HeaderKinds, e \in Eols, p \in {"black", "text"}, n \in PayloadLengths}

\* The empty file, a file below 20 bytes, a file without a header, and a
\* well-formed file of more than 100 bytes that is not named *.pgm.
OtherFiles ==
    {[bytes |-> <<>>, pgmName |-> TRUE, kind |-> "empty", grid |-> NoGrid, payload |-> 0],
     [bytes |-> Bytes(<<"P", "5", "\n", "4", " ", "4", "\n", "2", "5", "5", "\n">>) \o Payload("ramp", 5, 255),
      pgmName |-> TRUE, kind |-> "small", grid |-> NoGrid, payload |-> 5],
     [bytes |-> Payload("ramp", 30, 255), pgmName |-> TRUE, kind |-> "noheader", grid |-> NoGrid, payload |-> 30],
     [bytes |-> Encode(Grid(10, 10, "ramp", 255), 255), pgmName |-> FALSE, kind |-> "wellformed",
      grid |-> Grid(10, 10, "ramp", 255), payload |-> 100]}

PgmFiles == WellFormedFiles \cup HeaderFiles \cup OtherFiles

(***************************************************************************)
(* parsePgmFile as a process: one step per callback. Every read of the     *)
(* file may succeed or fail.                                               *)
(***************************************************************************)
NoFile == [bytes |-> <<>>, pgmName |-> FALSE, kind |-> "none", grid |-> NoGrid, payload |-> 0]

Pending == [state |-> "pending", by |-> "none", value |-> NoGrid]

\* The bytes of a File do not change: what reader.onload of startParsing and
\* the then-handler of fetch compute from them is evaluated once per file.
decoded(file) == [primary |-> decodePgm(file.bytes), fetch |-> decodePgmFallback(file.bytes)]

PgmIdle ==
    /\ pgmFile = NoFile
    /\ pgmDecoded = [primary |-> NoGrid, fetch |-> NoGrid]
    /\ pgmPc = "idle"
    /\ pgmPromise = Pending
    /\ pgmImg = "none"
    /\ pgmTimer = "none"

PgmInit ==
    /\ pgmFile \in PgmFiles
    /\ pgmDecoded = decoded(pgmFile)
    /\ pgmPc = "start"
    /\ pgmPromise = Pending
    /\ pgmImg = "none"
    /\ pgmTimer = "none"

size == Len(pgmFile.bytes)

\* resolve(map): settles the promise if it is still pending.
resolve(by, map) ==
    IF pgmPromise.state = "pending"
    THEN [state |-> "resolved", by |-> by, value |-> map]
    ELSE pgmPromise

MinValidSize == 100
MaxValidSize == 50000000

\* The executor of parsePgmFile: the two size checks, then testFileAccess.
PgmStart ==
    /\ pgmPc = "start"
    /\ IF size = 0 \/ size < MinFileSize
       THEN /\ pgmPromise' = resolve("size", createDummyMap)
            /\ pgmPc' = "done"
       ELSE /\ pgmPc' = "testFileAccess"
            /\ UNCHANGED pgmPromise
    /\ UNCHANGED <<pgmFile, pgmDecoded, pgmImg, pgmTimer>>
    /\ UNCHANGED nonPgmVars

\* reader.onload of testFileAccess, then startParsing().
TestFileAccessOnload ==
    /\ pgmPc = "testFileAccess"
    /\ pgmPc' = "reading"
    /\ UNCHANGED <<pgmFile, pgmDecoded, pgmPromise, pgmImg, pgmTimer>>
    /\ UNCHANGED nonPgmVars

\* validateFileAlternative(file): the name, the size, then URL.createObjectURL.
validateFileAlternative(urlOk) ==
    /\ pgmFile.pgmName
    /\ ~(size < MinValidSize \/ size > MaxValidSize)
    /\ urlOk

\* reader.onerror of testFileAccess: validateFileAlternative, then
\* startParsing() or the placeholder.
TestFileAccessOnerror(urlOk) ==
    /\ pgmPc = "testFileAccess"
    /\ IF validateFileAlternative(urlOk)
       THEN /\ pgmPc' = "reading"
            /\ UNCHANGED pgmPromise
       ELSE /\ pgmPromise' = resolve("access", createDummyMap)
            /\ pgmPc' = "done"
    /\ UNCHANGED <<pgmFile, pgmDecoded, pgmImg, pgmTimer>>
    /\ UNCHANGED nonPgmVars

\* reader.onload of startParsing.
ReaderOnload ==
    /\ pgmPc = "reading"
    /\ pgmPromise' = resolve("primary", pgmDecoded.primary)
    /\ pgmPc' = "done"
    /\ UNCHANGED <<pgmFile, pgmDecoded, pgmImg, pgmTimer>>
    /\ UNCHANGED nonPgmVars

\* reader.onerror of startParsing: tryUrlFallback, which goes on with
\* tryDataUrlFallback when URL.createObjectURL throws.
ReaderOnerror(urlOk) ==
    /\ pgmPc = "reading"
    /\ pgmPc' = IF urlOk THEN "fetching" ELSE "dataUrl"
    /\ UNCHANGED <<pgmFile, pgmDecoded, pgmPromise, pgmImg, pgmTimer>>
    /\ UNCHANGED nonPgmVars

\* fetch(url) answered: the then-handlers of tryUrlFallback, and its catch
\* handler when one of them throws.
FetchOnload ==
    /\ pgmPc = "fetching"
    /\ IF pgmDecoded.fetch = Throws
       THEN /\ pgmPc' = "dataUrl"
            /\ UNCHANGED pgmPromise
       ELSE /\ pgmPromise' = resolve("fetch", pgmDecoded.fetch)
            /\ pgmPc' = "done"
    /\ UNCHANGED <<pgmFile, pgmDecoded, pgmImg, pgmTimer>>
    /\ UNCHANGED nonPgmVars

\* fetch(url) failed or answered with a status that is not ok.
FetchOnerror ==
    /\ pgmPc = "fetching"
    /\ pgmPc' = "dataUrl"
    /\ UNCHANGED <<pgmFile, pgmDecoded, pgmPromise, pgmImg, pgmTimer>>
    /\ UNCHANGED nonPgmVars

\* tryCanvasFallback: the image starts loading and the timer is set, or the
\* placeholder when the set-up throws.
tryCanvasFallback(urlOk) ==
    IF urlOk
    THEN /\ pgmPc' = "canvas"
         /\ pgmImg' = "loading"
         /\ pgmTimer' = "pending"
         /\ UNCHANGED pgmPromise
    ELSE /\ pgmPromise' = resolve("canvasSetup", createDummyMap)
         /\ pgmPc' = "done"
         /\ UNCHANGED <<pgmImg, pgmTimer>>

\* reader.onload of tryDataUrlFallback.
DataUrlOnload(hasResult, urlOk) ==
    /\ pgmPc = "dataUrl"
    /\ IF hasResult
       THEN /\ pgmPromise' = resolve("dataUrl", createDummyMap)
            /\ pgmPc' = "done"
            /\ UNCHANGED <<pgmImg, pgmTimer>>
       ELSE tryCanvasFallback(urlOk)
    /\ UNCHANGED <<pgmFile, pgmDecoded>>
    /\ UNCHANGED nonPgmVars

\* Faulty variant: the error is logged and nothing else is tried.
DataUrlOnerror_logOnly(urlOk) ==
    /\ pgmPc = "dataUrl"
    /\ pgmPc' = "done"
    /\ UNCHANGED <<pgmFile, pgmDecoded, pgmPromise, pgmImg, pgmTimer>>
    /\ UNCHANGED nonPgmVars

\* reader.onerror of tryDataUrlFallback.
DataUrlOnerror(urlOk) ==
    /\ pgmPc = "dataUrl"
    /\ tryCanvasFallback(urlOk)
    /\ UNCHANGED <<pgmFile, pgmDecoded>>
    /\ UNCHANGED nonPgmVars

ImageSizes == {<<1, 1>>, <<2, 3>>, <<0, 0>>}
Greys == {0, 128, 255}

\* img.onload of tryCanvasFallback.
ImgOnload(d, gray, ctxOk) ==
    /\ pgmPc = "canvas"
    /\ pgmImg = "loading"
    /\ pgmImg' = "done"
    /\ pgmPromise' = resolve("canvas", decodeCanvas(d[1], d[2], gray, ctxOk))
    /\ UNCHANGED <<pgmFile, pgmDecoded, pgmPc, pgmTimer>>
    /\ UNCHANGED nonPgmVars

\* img.onerror of tryCanvasFallback.
ImgOnerror ==
    /\ pgmPc = "canvas"
    /\ pgmImg = "loading"
    /\ pgmImg' = "done"
    /\ pgmPromise' = resolve("imgError", createDummyMap)
    /\ UNCHANGED <<pgmFile, pgmDecoded, pgmPc, pgmTimer>>
    /\ UNCHANGED nonPgmVars

\* The callback of the 10 s timer of tryCanvasFallback.
CanvasTimeout ==
    /\ pgmPc = "canvas"
    /\ pgmTimer = "pending"
    /\ pgmTimer' = "fired"
    /\ pgmPromise' = resolve("timeout", createDummyMap)
    /\ UNCHANGED <<pgmFile, pgmDecoded, pgmPc, pgmImg>>
    /\ UNCHANGED nonPgmVars

PgmNext ==
    \/ PgmStart
    \/ TestFileAccessOnload
    \/ \E urlOk \in BOOLEAN : TestFileAccessOnerror(urlOk)
    \/ ReaderOnload
    \/ \E urlOk \in BOOLEAN : ReaderOnerror(urlOk)
    \/ FetchOnload
    \/ FetchOnerror
    \/ \E hasResult \in BOOLEAN, urlOk \in BOOLEAN : DataUrlOnload(hasResult, urlOk)
    \/ \E urlOk \in BOOLEAN : DataUrlOnerror(urlOk)
    \/ \E d \in ImageSizes, gray \in Greys, ctxOk \in BOOLEAN : ImgOnload(d, gray, ctxOk)
    \/ ImgOnerror
    \/ CanvasTimeout

(***************************************************************************)
(* MapParser.worldToPixel and pixelToWorld. Lengths are integers in units  *)
(* of 1/100 m, so that resolution 0.05 m is 5: the arithmetic is exact.    *)
(***************************************************************************)
CoordMargin == 2     \* how far outside the raster the pixels given go

\* Math.floor(a / b) for b > 0.
FloorDiv(a, b) == a \div b

\* Faulty variant: the rows are counted from the top.
pixelToWorld_noFlip(pixelX, pixelY, m) ==
    <<m.origin[1] + (pixelX * m.resolution),
      m.origin[2] + (pixelY * m.resolution)>>

\* Faulty variant: the rows are counted from height - 1.
pixelToWorld_lastRow(pixelX, pixelY, m) ==
    <<m.origin[1] + (pixelX * m.resolution),
      m.origin[2] + ((m.height - 1 - pixelY) * m.resolution)>>

\* MapParser.pixelToWorld(pixelX, pixelY, mapData)
pixelToWorld(pixelX, pixelY, m) ==
    <<m.origin[1] + (pixelX * m.resolution),
      m.origin[2] + ((m.height - pixelY) * m.resolution)>>

\* Faulty variant: the quotients are rounded to the nearest integer.
worldToPixel_round(worldX, worldY, m) ==
    <<FloorDiv(2 * (worldX - m.origin[1]) + m.resolution, 2 * m.resolution),
      m.height + FloorDiv(m.resolution - 2 * (worldY - m.origin[2]), 2 * m.resolution)>>

\* Faulty variant: the origin is not subtracted.
worldToPixel_noOrigin(worldX, worldY, m) ==
    <<FloorDiv(worldX, m.resolution),
      m.height + FloorDiv(0 - worldY, m.resolution)>>

\* Faulty variant: the row is not counted from the top.
worldToPixel_noFlip(worldX, worldY, m) ==
    <<FloorDiv(worldX - m.origin[1], m.resolution),
      FloorDiv(worldY - m.origin[2], m.resolution)>>

\* MapParser.worldToPixel(worldX, worldY, mapData);
\* Math.floor(height - q) is height + Math.floor(-q) for an integer height.
worldToPixel(worldX, worldY, m) ==
    <<FloorDiv(worldX - m.origin[1], m.resolution),
      m.height + FloorDiv(0 - (worldY - m.origin[2]), m.resolution)>>

Maps ==
    [width : {1, 4}, height : {1, 3, 10}, resolution : {2, 5},
     origin : {<<0, 0, 0>>, <<0 - 100, 0 - 100, 0>>, <<3, 0 - 7, 0>>}]

PixelsGiven(m) ==
    [frame : {"pixel"}, x : (0 - CoordMargin)..(m.width + CoordMargin),
                        y : (0 - CoordMargin)..(m.height + CoordMargin)]

\* World points around the rectangle the raster covers.
worldPointsGiven(m) ==
    [frame : {"world"},
     x : {m.origin[1] + d : d \in (0 - CoordMargin)..(m.width * m.resolution + CoordMargin)},
     y : {m.origin[2] + d : d \in (0 - CoordMargin)..(m.height * m.resolution + CoordMargin)}]

NoMapData == [width |-> 1, height |-> 1, resolution |-> 1, origin |-> <<0, 0, 0>>]

CoordIdle ==
    /\ mapData = NoMapData
    /\ point = [frame |-> "none", x |-> 0, y |-> 0]
    /\ given = point
    /\ applied = <<>>
    /\ operand = <<0, 0>>

CoordInit ==
    /\ mapData \in Maps
    /\ point \in PixelsGiven(mapData) \cup worldPointsGiven(mapData)
    /\ given = point
    /\ applied = <<>>
    /\ operand = <<0, 0>>

\* The caller turns the pixel it holds into a world point.
PixelToWorld ==
    /\ point.frame = "pixel"
    /\ Len(applied) < 2
    /\ point' = [frame |-> "world", x |-> pixelToWorld(point.x, point.y, mapData)[1],
                                    y |-> pixelToWorld(point.x, point.y, mapData)[2]]
    /\ applied' = Append(applied, "pixelToWorld")
    /\ UNCHANGED <<mapData, given, operand>>
    /\ UNCHANGED nonCoordVars

\* The coordinates are doubles: a sum, a product or a quotient is the double
\* nearest to the exact one, which may lie on the other side of a multiple
\* of the resolution. The model lets each coordinate worldToPixel works on
\* be one unit off the exact one.
Rounding == {0 - 1, 0, 1}

\* The caller turns the world point it holds into a pixel.
WorldToPixel ==
    /\ point.frame = "world"
    /\ Len(applied) < 2
    /\ \E ex \in Rounding, ey \in Rounding :
          /\ operand' = <<point.x + ex, point.y + ey>>
          /\ point' = [frame |-> "pixel",
                       x |-> worldToPixel(point.x + ex, point.y + ey, mapData)[1],
                       y |-> worldToPixel(point.x + ex, point.y + ey, mapData)[2]]
    /\ applied' = Append(applied, "worldToPixel")
    /\ UNCHANGED <<mapData, given>>
    /\ UNCHANGED nonCoordVars

CoordNext ==
    \/ PixelToWorld
    \/ WorldToPixel

(***************************************************************************)
(* parseYamlMetadata. Numbers are integers in units of 1/100.              *)
(***************************************************************************)
COLON == 58
COMMA == 44
LBRACKET == 91
RBRACKET == 93
DOT == 46
REPLACEMENT == 65533

\* new TextDecoder('utf-8').decode(arrayBuffer) for bytes that are ASCII or
\* start no UTF-8 sequence (0xF8..0xFF): the decoder is not fatal, a byte
\* it cannot decode becomes U+FFFD.
utf8Decode(bytes) == [i \in 1..Len(bytes) |-> IF bytes[i] < 128 THEN bytes[i] ELSE REPLACEMENT]

\* str.indexOf(c) for one character: 0-based, -1 when absent.
indexOf(str, c) ==
    LET at == {i \in 1..Len(str) : str[i] = c} IN
    IF at = {} THEN 0 - 1 ELSE (CHOOSE k \in at : \A m \in at : k <= m) - 1

\* str.split(c) for one character.
RECURSIVE split(_, _)
split(str, c) ==
    LET i == indexOf(str, c) IN
    IF i < 0 THEN <<str>>
    ELSE <<SubSeq(str, 1, i)>> \o split(SubSeq(str, i + 2, Len(str)), c)

\* The number of decimal digits of str from position from on.
DigitRun(str, from) ==
    LET stop == {k \in from..Len(str) : ~IsDigit(str[k])} IN
    IF stop = {} THEN Max(Len(str) - from + 1, 0)
    ELSE (CHOOSE k \in stop : \A m \in stop : k <= m) - from

\* parseFloat(str) for strings without an exponent and with at most two
\* fraction digits: leading white space and one sign are skipped, the
\* longest prefix "digits", "digits.digits", "digits." or ".digits" is the
\* value, and the result is NaN when that prefix has no digit.
parseFloat(str) ==
    LET body == {i \in 1..Len(str) : ~IsSpace(str[i])}
        b == IF body = {} THEN Len(str) + 1 ELSE CHOOSE k \in body : \A m \in body : k <= m
        signed == b <= Len(str) /\ str[b] \in {MINUS, PLUS}
        d == IF signed THEN b + 1 ELSE b
        ni == DigitRun(str, d)
        dot == d + ni <= Len(str) /\ str[d + ni] = DOT
        nf == IF dot THEN DigitRun(str, d + ni + 1) ELSE 0
        frac == SubSeq(str, d + ni + 1, d + ni + nf)
        whole == DigitsValue(SubSeq(str, d, d + ni - 1))
        cents == (IF nf >= 1 THEN 10 * (frac[1] - ZERO) ELSE 0) + (IF nf >= 2 THEN frac[2] - ZERO ELSE 0)
    IN IF ni + nf = 0 THEN NaN
       ELSE Num((IF signed /\ str[b] = MINUS THEN -1 ELSE 1) * (100 * whole + cents))

\* value.match(/\[(.*?)\]/): the text between the leftmost "[" that a "]"
\* follows on the same line and the first "]" after it.
NoMatch == [found |-> FALSE, inner |-> <<>>]

matchBrackets(value) ==
    LET closeAfter(i) == {j \in (i + 1)..Len(value) : value[j] = RBRACKET}
        firstClose(i) == CHOOSE j \in closeAfter(i) : \A m \in closeAfter(i) : j <= m
        opens == {i \in 1..Len(value) :
                    /\ value[i] = LBRACKET
                    /\ closeAfter(i) # {}
                    /\ \A k \in (i + 1)..(firstClose(i) - 1) : value[k] \notin {LF, CR}}
    IN IF opens = {} THEN NoMatch
       ELSE LET o == CHOOSE i \in opens : \A m \in opens : i <= m
            IN [found |-> TRUE, inner |-> SubSeq(value, o + 1, firstClose(o) - 1)]

\* parts.map(s => parseFloat(s.trim()))
parseAll(parts) == [i \in 1..Len(parts) |-> parseFloat(Trim(parts[i]))]

\* coords of the origin branch.
originCoords(value) ==
    IF indexOf(value, LBRACKET) >= 0 /\ indexOf(value, RBRACKET) >= 0
    THEN IF matchBrackets(value).found THEN parseAll(split(matchBrackets(value).inner, COMMA)) ELSE <<>>
    ELSE IF indexOf(value, COMMA) >= 0 THEN parseAll(split(value, COMMA))
    ELSE <<>>

Unset == [set |-> FALSE, val |-> <<>>]

Set(v) == [set |-> TRUE, val |-> v]

\* const metadata: Partial<MapData> = {}
NoMetadata == [resolution |-> Unset, origin |-> Unset]

KeyResolution == Bytes(<<"r", "e", "s", "o", "l", "u", "t", "i", "o", "n">>)

KeyOrigin == Bytes(<<"o", "r", "i", "g", "i", "n">>)

\* The resolution branch.
setResolution(metadata, value) ==
    IF ~isNaN(parseFloat(value))
    THEN [metadata EXCEPT !.resolution = Set(<<parseFloat(value).val>>)]
    ELSE metadata

\* Faulty variant: theta is not defaulted, three components are required.
setOrigin_noDefault(metadata, value) ==
    LET coords == originCoords(value) IN
    IF Len(coords) >= 3 /\ \A i \in 1..Len(coords) : ~isNaN(coords[i])
    THEN [metadata EXCEPT !.origin = Set(<<coords[1].val, coords[2].val, coords[3].val>>)]
    ELSE metadata

\* The origin branch.
setOrigin(metadata, value) ==
    LET coords == originCoords(value) IN
    IF Len(coords) >= 2 /\ \A i \in 1..Len(coords) : ~isNaN(coords[i])
    THEN [metadata EXCEPT !.origin =
              Set(<<coords[1].val, coords[2].val, IF Len(coords) >= 3 THEN coords[3].val ELSE 0>>)]
    ELSE metadata

\* One turn of the loop over the lines.
parseLine(metadata, line) ==
    LET trimmed == Trim(line)
        colonIndex == indexOf(trimmed, COLON)
        key == Trim(SubSeq(trimmed, 1, colonIndex))
        value == Trim(SubSeq(trimmed, colonIndex + 2, Len(trimmed)))
    IN IF trimmed = <<>> \/ trimmed[1] = HASH THEN metadata
       ELSE IF colonIndex < 0 THEN metadata
       ELSE IF key = KeyResolution THEN setResolution(metadata, value)
       ELSE IF key = KeyOrigin THEN setOrigin(metadata, value)
       ELSE metadata

RECURSIVE parseLines(_, _)
parseLines(metadata, lines) ==
    IF lines = <<>> THEN metadata
    ELSE parseLines(parseLine(metadata, Head(lines)), Tail(lines))

\* Faulty variant: a blank content is parsed like any other.
parseYaml_noBlankCheck(bytes) ==
    [state |-> "resolved", by |-> "reader",
     value |-> parseLines(NoMetadata, SplitLines(utf8Decode(bytes)))]

\* What reader.onload settles the promise with: an ArrayBuffer is never
\* falsy, the decoder never throws, a blank content throws and the catch
\* block rejects.
parseYaml(bytes) ==
    LET content == utf8Decode(bytes) IN
    IF Trim(content) = <<>> THEN [state |-> "rejected", by |-> "reader", value |-> NoMetadata]
    ELSE [state |-> "resolved", by |-> "reader", value |-> parseLines(NoMetadata, SplitLines(content))]

\* resolve({ resolution: 0.05, origin: [0, 0, 0] })
FallbackMetadata == [resolution |-> Set(<<5>>), origin |-> Set(<<0, 0, 0>>)]

\* What textReader.onload settles the promise with.
parseYamlFallback(bytes) ==
    IF utf8Decode(bytes) # <<>>
    THEN [state |-> "resolved", by |-> "textReader", value |-> FallbackMetadata]
    ELSE [state |-> "rejected", by |-> "textReader", value |-> NoMetadata]

(***************************************************************************)
(* Files given to parseYamlMetadata.                                       *)
(***************************************************************************)
MaxComponents == 4   \* components of an origin value

\* A component of an origin value: its text, whether it is a number and the
\* number it is.
OriginTokens ==
    {[text |-> <<"1">>, numeric |-> TRUE, val |-> 100],
     [text |-> <<"-", "1", ".", "5">>, numeric |-> TRUE, val |-> 0 - 150],
     [text |-> <<"x">>, numeric |-> FALSE, val |-> 0],
     [text |-> <<>>, numeric |-> FALSE, val |-> 0]}

OriginComponents == UNION {[1..n -> OriginTokens] : n \in 0..MaxComponents}

OriginFormats == {"bracketed", "bare"}

RECURSIVE JoinTexts(_)
JoinTexts(comps) ==
    IF comps = <<>> THEN <<>>
    ELSE IF Len(comps) = 1 THEN comps[1].text
    ELSE comps[1].text \o <<",", " ">> \o JoinTexts(Tail(comps))

OriginValue(fmt, comps) ==
    IF fmt = "bracketed" THEN <<"[">> \o JoinTexts(comps) \o <<"]">> ELSE JoinTexts(comps)

ResolutionLines == {"none", "good", "bad", "zero", "negative"}

ResolutionLine(res) ==
    CASE res = "none" -> <<>>
      [] res = "good" -> <<"r", "e", "s", "o", "l", "u", "t", "i", "o", "n", ":", " ", "0", ".", "0", "5", "\r", "\n">>
      [] res = "bad" -> <<"r", "e", "s", "o", "l", "u", "t", "i", "o", "n", ":", " ", "x", "\n">>
      [] res = "zero" -> <<"r", "e", "s", "o", "l", "u", "t", "i", "o", "n", ":", " ", "0", "\n">>
      [] res = "negative" -> <<"r", "e", "s", "o", "l", "u", "t", "i", "o", "n", ":", " ", "-", "0", ".", "0", "5", "\n">>

UnknownLine == <<"i", "m", "a", "g", "e", ":", " ", "a", "\n">>

\* A map description with an unknown key, a resolution and an origin.
OriginFiles ==
    {[bytes |-> Bytes(UnknownLine \o ResolutionLine(res)
                      \o <<"o", "r", "i", "g", "i", "n", ":", " ">> \o OriginValue(fmt, comps) \o <<"\n">>),
      kind |-> "origin", fmt |-> fmt, comps |-> comps, res |-> res] :
        fmt \in OriginFormats, comps \in OriginComponents, res \in ResolutionLines}

TextKinds == {"empty", "blank", "comment", "unknown", "nocolon", "undecodable"}

TextBytes(kind) ==
    CASE kind = "empty" -> <<>>
      [] kind = "blank" -> Bytes(<<" ", "\r", "\n", "\t", "\n">>)
      [] kind = "comment" -> Bytes(<<"#", " ", "a", "\n", " ", "#", "b">>)
      [] kind = "unknown" -> Bytes(UnknownLine)
      [] kind = "nocolon" -> Bytes(<<"o", "r", "i", "g", "i", "n", "\n">>)
      [] kind = "undecodable" -> <<255>>

\* Texts without a resolution or an origin.
TextFiles ==
    {[bytes |-> TextBytes(kind) \o (IF kind = "unknown" THEN Bytes(ResolutionLine(res)) ELSE <<>>),
      kind |-> kind, fmt |-> "none", comps |-> <<>>, res |-> res] :
        kind \in TextKinds, res \in {"none"}}

YamlFiles == OriginFiles \cup TextFiles

NoYamlFile == [bytes |-> <<>>, kind |-> "none", fmt |-> "none", comps |-> <<>>, res |-> "none"]

YamlPending == [state |-> "pending", by |-> "none", value |-> NoMetadata]

YamlIdle ==
    /\ yamlFile = NoYamlFile
    /\ yamlPc = "idle"
    /\ yamlPromise = YamlPending

\* parseYamlMetadata(file) has returned: reader.readAsArrayBuffer(file) is
\* under way.
YamlInit ==
    /\ yamlFile \in YamlFiles
    /\ yamlPc = "readAsArrayBuffer"
    /\ yamlPromise = YamlPending

\* reader.onload
YamlReaderOnload ==
    /\ yamlPc = "readAsArrayBuffer"
    /\ yamlPromise' = parseYaml(yamlFile.bytes)
    /\ yamlPc' = "done"
    /\ UNCHANGED yamlFile
    /\ UNCHANGED nonYamlVars

\* reader.onerror: textReader.readAsText(file, 'utf-8')
YamlReaderOnerror ==
    /\ yamlPc = "readAsArrayBuffer"
    /\ yamlPc' = "readAsText"
    /\ UNCHANGED <<yamlFile, yamlPromise>>
    /\ UNCHANGED nonYamlVars

\* textReader.onload
YamlTextOnload ==
    /\ yamlPc = "readAsText"
    /\ yamlPromise' = parseYamlFallback(yamlFile.bytes)
    /\ yamlPc' = "done"
    /\ UNCHANGED yamlFile
    /\ UNCHANGED nonYamlVars

\* textReader.onerror
YamlTextOnerror ==
    /\ yamlPc = "readAsText"
    /\ yamlPromise' = [state |-> "rejected", by |-> "textReaderError", value |-> NoMetadata]
    /\ yamlPc' = "done"
    /\ UNCHANGED yamlFile
    /\ UNCHANGED nonYamlVars

YamlNext ==
    \/ YamlReaderOnload
    \/ YamlReaderOnerror
    \/ YamlTextOnload
    \/ YamlTextOnerror

(***************************************************************************)
(* MapParser.loadMapFromFiles and MapSelector.loadMap: the two places      *)
(* where the result of parsePgmFile and of parseYamlMetadata are combined. *)
(***************************************************************************)
Loaders == {"loadMapFromFiles", "loadMap"}

\* resolution and origin of every map parsePgmFile resolves with.
PgmDefaults == [resolution |-> 5, origin |-> <<0, 0, 0>>]

NoFinalMap == [state |-> "none", resolution |-> 0, origin |-> <<0, 0, 0>>]

Delivered(m) == [state |-> "delivered", resolution |-> m.resolution, origin |-> m.origin]

\* Truthiness of yamlMetadata.resolution: undefined and 0 are falsy.
truthyResolution(metadata) == metadata.resolution.set /\ metadata.resolution.val[1] # 0

\* loadMapFromFiles from the settlement of parseYamlMetadata on: the two
\* ifs, or the catch block, then return mapData.
loadMapFromFilesReturn(pgmMap, promise) ==
    IF promise.state = "rejected" THEN Delivered(pgmMap)
    ELSE Delivered([resolution |-> IF truthyResolution(promise.value)
                                   THEN promise.value.resolution.val[1] ELSE pgmMap.resolution,
                    origin |-> IF promise.value.origin.set
                               THEN promise.value.origin.val ELSE pgmMap.origin])

\* loadMap from the settlement of parseYamlMetadata on: finalMapData and
\* onMapLoad(finalMapData), or the catch block and setError.
loadMapDeliver(pgmMap, promise) ==
    IF promise.state = "rejected" THEN [NoFinalMap EXCEPT !.state = "error"]
    ELSE Delivered([resolution |-> IF truthyResolution(promise.value)
                                   THEN promise.value.resolution.val[1] ELSE pgmMap.resolution,
                    origin |-> IF promise.value.origin.set
                               THEN promise.value.origin.val ELSE pgmMap.origin])

LoaderIdle ==
    /\ loader = "none"
    /\ loaderPc = "idle"
    /\ finalMapData = NoFinalMap

\* loadMapFromFiles(pgmFile, yamlFile) or loadMap(mapName) was called; the
\* yamlFile of loadMapFromFiles is optional.
LoaderInit ==
    /\ loader \in Loaders
    /\ loaderPc = IF loader = "loadMap" THEN "fetch" ELSE "parsePgmFile"
    /\ finalMapData = NoFinalMap
    /\ yamlFile \in YamlFiles \cup (IF loader = "loadMapFromFiles" THEN {NoYamlFile} ELSE {})
    /\ yamlPc = "idle"
    /\ yamlPromise = YamlPending

\* loadMap: the two fetches have settled; a response that is not ok throws.
LoadFetched ==
    /\ loaderPc = "fetch"
    /\ \E pgmOk \in BOOLEAN, yamlOk \in BOOLEAN :
          IF pgmOk /\ yamlOk
          THEN loaderPc' = "parsePgmFile" /\ UNCHANGED finalMapData
          ELSE loaderPc' = "done" /\ finalMapData' = [NoFinalMap EXCEPT !.state = "error"]
    /\ UNCHANGED <<loader, yamlVars>>
    /\ UNCHANGED nonLoaderVars

\* await parsePgmFile(pgmFile) has its map; parseYamlMetadata(yamlFile) is
\* called, unless loadMapFromFiles was given no yamlFile and returns.
PgmParsed ==
    /\ loaderPc = "parsePgmFile"
    /\ IF yamlFile = NoYamlFile
       THEN /\ loaderPc' = "done"
            /\ finalMapData' = Delivered(PgmDefaults)
            /\ UNCHANGED yamlPc
       ELSE /\ loaderPc' = "parseYamlMetadata"
            /\ yamlPc' = "readAsArrayBuffer"
            /\ UNCHANGED finalMapData
    /\ UNCHANGED <<loader, yamlFile, yamlPromise>>
    /\ UNCHANGED nonLoaderVars

\* await parseYamlMetadata(yamlFile) has settled.
YamlParsed ==
    /\ loaderPc = "parseYamlMetadata"
    /\ yamlPromise.state # "pending"
    /\ finalMapData' = IF loader = "loadMap" THEN loadMapDeliver(PgmDefaults, yamlPromise)
                       ELSE loadMapFromFilesReturn(PgmDefaults, yamlPromise)
    /\ loaderPc' = "done"
    /\ UNCHANGED <<loader, yamlVars>>
    /\ UNCHANGED nonLoaderVars

LoaderNext ==
    \/ LoadFetched
    \/ PgmParsed
    \/ YamlNext
    \/ YamlParsed

(***************************************************************************)
(* useWebSocket: one mounted hook and the ROSWebSocketService it creates.  *)
(* The effect registers one connection and one disconnection listener and  *)
(* calls connect() once; the component may call subscribeToTopic.          *)
(***************************************************************************)
\* The topics the connection listener subscribes to, and two the component
\* may subscribe to through subscribeToTopic.
ListenerTopics == {"/amcl_pose", "/odom"}

CustomTopics == {"/scan", "/map"}

\* The effect has run: the service exists, the listeners are registered
\* and connect() has created the WebSocket.
HookInit ==
    /\ hookWs = "CONNECTING"
    /\ hookAttempts = 0
    /\ hookTimer = FALSE
    /\ hookSubscribers = {}
    /\ hookSent = {}
    /\ hookNotified = "none"
    /\ hookAuto = FALSE
    /\ hookReceived = {}

HookIdle ==
    /\ hookWs = "NULL"
    /\ hookAttempts = 0
    /\ hookTimer = FALSE
    /\ hookSubscribers = {}
    /\ hookSent = {}
    /\ hookNotified = "none"
    /\ hookAuto = FALSE
    /\ hookReceived = {}

\* ws.onopen: reconnectAttempts = 0, then the connection listener, which
\* subscribes to its two topics on the open WebSocket.
HookOnOpen ==
    /\ hookWs = "CONNECTING"
    /\ hookWs' = "OPEN"
    /\ hookAttempts' = 0
    /\ hookNotified' = "connection"
    /\ hookSubscribers' = hookSubscribers \cup ListenerTopics
    /\ hookSent' = hookSent \cup ListenerTopics
    /\ UNCHANGED <<hookTimer, hookAuto, hookReceived>>
    /\ UNCHANGED nonHookVars

\* ws.onclose, the connection having failed or been lost: the disconnection
\* listener, then handleReconnect().
HookOnClose ==
    /\ hookWs \in {"CONNECTING", "OPEN"}
    /\ hookWs' = "CLOSED"
    /\ hookNotified' = "disconnection"
    /\ hookAttempts' = IF hookAttempts < maxReconnectAttempts THEN hookAttempts + 1 ELSE hookAttempts
    /\ hookTimer' = (hookAttempts < maxReconnectAttempts)
    /\ UNCHANGED <<hookSubscribers, hookSent, hookAuto, hookReceived>>
    /\ UNCHANGED nonHookVars

\* The timer of handleReconnect fires: connect() creates a new WebSocket,
\* on which no frame was sent yet.
HookTimerFires ==
    /\ hookTimer
    /\ hookTimer' = FALSE
    /\ hookWs' = "CONNECTING"
    /\ hookSent' = {}
    /\ hookReceived' = {}
    /\ hookAuto' = TRUE
    /\ UNCHANGED <<hookAttempts, hookSubscribers, hookNotified>>
    /\ UNCHANGED nonHookVars

\* subscribeToTopic(topic, ...): service.subscribe, which returns early
\* unless the WebSocket is open.
SubscribeToTopic(t) ==
    /\ hookWs # "NULL"
    /\ IF hookWs = "OPEN"
       THEN /\ hookSubscribers' = hookSubscribers \cup {t}
            /\ hookSent' = hookSent \cup {t}
       ELSE UNCHANGED <<hookSubscribers, hookSent>>
    /\ UNCHANGED <<hookWs, hookAttempts, hookTimer, hookNotified, hookAuto, hookReceived>>
    /\ UNCHANGED nonHookVars

\* ws.onmessage for a frame of topic t: the server sends the frames of a
\* topic on the connections a subscribe frame for it came on; the handler
\* the registry holds for t is invoked.
HookOnMessage(t) ==
    /\ hookWs = "OPEN"
    /\ t \in hookSent
    /\ hookReceived' = hookReceived \cup ({t} \cap hookSubscribers)
    /\ UNCHANGED <<hookWs, hookAttempts, hookTimer, hookSubscribers, hookSent, hookNotified, hookAuto>>
    /\ UNCHANGED nonHookVars

HookNext ==
    \/ HookOnOpen
    \/ HookOnClose
    \/ HookTimerFires
    \/ \E t \in CustomTopics \cup ListenerTopics : SubscribeToTopic(t)
    \/ \E t \in CustomTopics \cup ListenerTopics : HookOnMessage(t)

(***************************************************************************)
(* App: the map installed as the current map, by MapSelector.loadMap and   *)
(* handleMapLoad, or by loadMapForBothSystems, which reads the header of   *)
(* the raster itself.                                                      *)
(***************************************************************************)
AppHeaderScan == 1000

Installers == {"loadMap", "loadMapForBothSystems"}

NoLocalMap == [set |-> FALSE, width |-> NaN, height |-> NaN, data |-> <<>>]

\* The number of white-space characters of str from position from on.
SpaceRun(str, from) ==
    LET stop == {k \in from..Len(str) : ~IsSpace(str[k])} IN
    IF stop = {} THEN Max(Len(str) - from + 1, 0)
    ELSE (CHOOSE k \in stop : \A m \in stop : k <= m) - from

\* line.match(/^\d+\s+\d+$/)
IsDimensionsLine(line) ==
    LET d1 == DigitRun(line, 1)
        sp == SpaceRun(line, d1 + 1)
        d2 == DigitRun(line, d1 + sp + 1)
    IN d1 >= 1 /\ sp >= 1 /\ d2 >= 1 /\ d1 + sp + d2 = Len(line)

\* The loop over the first 1000 bytes, from index i on: at each newline the
\* line that ends there joins the header, and the loop stops at a line that
\* holds "255" or that is two numbers when the header holds "P5". Yields
\* offset and the lines of header.
RECURSIVE readHeader(_, _, _, _)
readHeader(pgmData, i, offset, lines) ==
    IF i >= Min(AppHeaderScan, Len(pgmData)) THEN [offset |-> offset, lines |-> lines]
    ELSE IF pgmData[i + 1] # LF THEN readHeader(pgmData, i + 1, offset, lines)
    ELSE LET line == utf8Decode(slice(pgmData, offset, i))
             header == Append(lines, line)
         IN IF \/ includes(line, <<ZERO + 2, ZERO + 5, ZERO + 5>>)
               \/ (IsDimensionsLine(line) /\ \E k \in 1..Len(header) : includes(header[k], <<80, ZERO + 5>>))
            THEN [offset |-> i + 1, lines |-> header]
            ELSE readHeader(pgmData, i + 1, i + 1, header)

\* The map loadMapForBothSystems gives setLocalMapData for the bytes of the
\* raster, or NoLocalMap when lines_header[1] is undefined and split throws.
loadMapForBothSystems(pgmData) ==
    LET read == readHeader(pgmData, 0, 0, <<>>)
        lines_header == SelectSeq(read.lines, LAMBDA l : l # <<>> /\ l[1] # HASH)
        dimensions == split(lines_header[2], SPACE)
    IN IF Len(lines_header) < 2 THEN NoLocalMap
       ELSE [set |-> TRUE,
             width |-> parseInt(dimensions[1]),
             height |-> IF Len(dimensions) >= 2 THEN parseInt(dimensions[2]) ELSE NaN,
             data |-> slice(pgmData, read.offset, Len(pgmData))]

AppIdle ==
    /\ installer = "none"
    /\ localMapData = NoLocalMap

\* loadMap(mapName) has called parsePgmFile, or loadMapForBothSystems(mapName)
\* waits for the raster it fetches.
AppInit ==
    /\ installer \in Installers
    /\ localMapData = NoLocalMap
    /\ IF installer = "loadMap" THEN PgmInit
       ELSE /\ pgmFile \in PgmFiles
            /\ pgmDecoded = [primary |-> NoGrid, fetch |-> NoGrid]
            /\ pgmPc = "idle"
            /\ pgmPromise = Pending
            /\ pgmImg = "none"
            /\ pgmTimer = "none"

\* loadMap: parsePgmFile has resolved and parseYamlMetadata settles; if it
\* resolved, onMapLoad(finalMapData), that is handleMapLoad, installs the map.
HandleMapLoad ==
    /\ installer = "loadMap"
    /\ pgmPromise.state = "resolved"
    /\ \E yamlResolved \in BOOLEAN :
          localMapData' = IF yamlResolved
                          THEN [set |-> TRUE, width |-> Num(pgmPromise.value.width),
                                height |-> Num(pgmPromise.value.height), data |-> pgmPromise.value.data]
                          ELSE localMapData
    /\ installer' = "done"
    /\ UNCHANGED pgmVars
    /\ UNCHANGED nonAppVars

\* loadMapForBothSystems: the fetch of the raster has settled; if it is ok
\* the header is read and the map installed.
LoadMapForBothSystems ==
    /\ installer = "loadMapForBothSystems"
    /\ \E ok \in BOOLEAN :
          localMapData' = IF ok THEN loadMapForBothSystems(pgmFile.bytes) ELSE localMapData
    /\ installer' = "done"
    /\ UNCHANGED pgmVars
    /\ UNCHANGED nonAppVars

AppNext ==
    \/ PgmNext
    \/ HandleMapLoad
    \/ LoadMapForBothSystems

(***************************************************************************)
(* PointDataService.addPointToMap: two calls under way at once, each made  *)
(* of loadMapPointData, the change of the data it got, and                 *)
(* saveMapPointData. The server answers every request.                     *)
(***************************************************************************)
PointMaps == {"m", "n"}

NoEntry == [present |-> FALSE, points |-> {}]

Entry(points) == [present |-> TRUE, points |-> points]

\* The entries the file may hold for a map before the calls.
PointEntries == {NoEntry, Entry({}), Entry({"p0"})}

\* The two calls: the point each adds.
PointCallers == {"first", "second"}

PointOf(c) == IF c = "first" THEN "p1" ELSE "p2"

\* The data after lines 1498-1513: the point is pushed on the entry of the
\* map, which is created if the data has none.
addPoint(data, mapName, pt) ==
    [data EXCEPT ![mapName] = IF @.present THEN Entry(@.points \cup {pt}) ELSE Entry({pt})]

PointIdle ==
    /\ pointFile = [m \in PointMaps |-> NoEntry]
    /\ pointCalls = [c \in PointCallers |-> [mapName |-> "m", pc |-> "idle", data |-> pointFile]]

\* Both calls have sent the request of loadMapPointData.
PointInit ==
    /\ pointFile \in [PointMaps -> PointEntries]
    /\ \E names \in [PointCallers -> PointMaps] :
          pointCalls = [c \in PointCallers |->
                           [mapName |-> names[c], pc |-> "load", data |-> [m \in PointMaps |-> NoEntry]]]

\* await this.loadMapPointData() of call c returns the file as it is now;
\* the call changes its copy and sends the request of saveMapPointData.
PointLoaded(c) ==
    /\ pointCalls[c].pc = "load"
    /\ pointCalls' = [pointCalls EXCEPT ![c].pc = "save",
                                        ![c].data = addPoint(pointFile, pointCalls[c].mapName, PointOf(c))]
    /\ UNCHANGED pointFile
    /\ UNCHANGED nonPointVars

\* The server handles the save request of call c: the file becomes the data
\* the call sent.
PointSaved(c) ==
    /\ pointCalls[c].pc = "save"
    /\ pointFile' = pointCalls[c].data
    /\ pointCalls' = [pointCalls EXCEPT ![c].pc = "done"]
    /\ UNCHANGED nonPointVars

PointNext ==
    \/ \E c \in PointCallers : PointLoaded(c)
    \/ \E c \in PointCallers : PointSaved(c)

(***************************************************************************)
(* Serving map files: GET /api/maps/<filename> of mapServer.js, the        *)
(* handler of public/api/maps/[filename].js and loadMapFile of mapApi.ts.  *)
(* A path is the tuple of its characters.                                  *)
(***************************************************************************)
MAP_DIRECTORY == 
    <<"/", "h", "o", "v", "e", "r", "_", "b", "o", "a", "r", "d", "/", "s", "r", "c", "/", "n", "a", "v", "2", "_", "h", "o", "v", "e", "r", "/",
      "n", "a", "v", "2", "_", "h", "o", "v", "e", "r", "a", "m", "r", "/", "m", "a", "p">>

SLASH == "/"

EXT_PGM == <<".", "p", "g", "m">>

EXT_YAML == <<".", "y", "a", "m", "l">>

\* str.startsWith(prefix)
startsWith(str, prefix) == Len(prefix) <= Len(str) /\ SubSeq(str, 1, Len(prefix)) = prefix

\* str.endsWith(suffix)
endsWith(str, suffix) ==
    Len(suffix) <= Len(str) /\ SubSeq(str, Len(str) - Len(suffix) + 1, Len(str)) = suffix

\* The segments of an absolute path once '', '.' and '..' are resolved;
\* '..' at the root stays at the root.
RECURSIVE normalizeSegments(_, _)
normalizeSegments(done, rest) ==
    IF rest = <<>> THEN done
    ELSE LET seg == Head(rest) IN
         IF seg = <<>> \/ seg = <<".">> THEN normalizeSegments(done, Tail(rest))
         ELSE IF seg = <<".", ".">>
              THEN normalizeSegments(IF done = <<>> THEN <<>> ELSE SubSeq(done, 1, Len(done) - 1),
                                     Tail(rest))
              ELSE normalizeSegments(Append(done, seg), Tail(rest))

\* The absolute path with these segments.
RECURSIVE pathOf(_)
pathOf(segs) ==
    IF segs = <<>> THEN <<>> ELSE <<SLASH>> \o Head(segs) \o pathOf(Tail(segs))

\* path.resolve(p) for an absolute p: normalised, without trailing slash.
pathResolve(p) ==
    LET segs == normalizeSegments(<<>>, split(p, SLASH)) IN
    IF segs = <<>> THEN <<SLASH>> ELSE pathOf(segs)

\* path.join(dir, filename) for an absolute dir: an empty filename is
\* skipped, the joined path is normalised and keeps a trailing slash.
pathJoin(dir, filename) ==
    IF filename = <<>> THEN pathResolve(dir)
    ELSE LET joined == pathResolve(dir \o <<SLASH>> \o filename) IN
         IF filename[Len(filename)] = SLASH /\ joined # <<SLASH>>
         THEN joined \o <<SLASH>> ELSE joined

\* The path is that of something located inside MAP_DIRECTORY.
InsideMapDirectory(p) ==
    LET segs == split(pathResolve(p), SLASH)
        dir == split(pathResolve(MAP_DIRECTORY), SLASH)
    IN  Len(segs) > Len(dir) /\ SubSeq(segs, 1, Len(dir)) = dir

\* The security check of the handler and of loadMapFile.
passesPrefixCheck(filePath) == startsWith(pathResolve(filePath), pathResolve(MAP_DIRECTORY))

allowedExtension(filename) == endsWith(filename, EXT_PGM) \/ endsWith(filename, EXT_YAML)

\* The segments filenames are made of, and the filenames: up to
\* MaxSegments segments joined by slashes.
MaxSegments == 3

Segments ==
    { <<>>, <<".">>, <<".", ".">>, <<"a", ".", "p", "g", "m">>, <<"a", ".", "y", "a", "m", "l">>,
      <<"m", "a", "p">>, <<"m", "a", "p", "s">>, <<"e", "t", "c">> }

RECURSIVE joinSegments(_)
joinSegments(segs) ==
    IF Len(segs) = 1 THEN segs[1] ELSE segs[1] \o <<SLASH>> \o joinSegments(Tail(segs))

FileNames == { joinSegments(segs) : segs \in UNION { [1..n -> Segments] : n \in 1..MaxSegments } }

Operations == {"mapServer", "handler", "loadMapFile"}

NoRead == <<>>

NoResponse == [status |-> 0, read |-> NoRead]

\* The answer of an operation: fileData of the file at filePath, or an
\* error status.
Served(filePath) == [status |-> 200, read |-> pathResolve(filePath)]

Refused(status) == [status |-> status, read |-> NoRead]

ServeIdle ==
    /\ request = [op |-> "none", filename |-> <<>>, exists |-> FALSE]
    /\ response = NoResponse

\* A request has arrived; exists tells whether a regular file is at the
\* path the filename resolves to.
ServeInit ==
    /\ request \in [op : Operations, filename : FileNames, exists : BOOLEAN]
    /\ response = NoResponse

\* mapServer.js, the route GET /api/maps/<filename>.
MapServerGet ==
    /\ request.op = "mapServer"
    /\ response = NoResponse
    /\ LET filename == request.filename
           filePath == pathJoin(MAP_DIRECTORY, filename)
       IN  response' =
             IF filename = <<>> \/ includes(filename, <<".", ".">>) \/ includes(filename, <<SLASH>>)
             THEN Refused(400)
             ELSE IF ~allowedExtension(filename) THEN Refused(400)
             ELSE IF ~request.exists THEN Refused(404)
             ELSE Served(filePath)
    /\ UNCHANGED request
    /\ UNCHANGED nonServeVars

\* public/api/maps/[filename].js, handler(req, res).
Handler ==
    /\ request.op = "handler"
    /\ response = NoResponse
    /\ LET filename == request.filename
           filePath == pathJoin(MAP_DIRECTORY, filename)
       IN  response' =
             IF filename = <<>> THEN Refused(400)
             ELSE IF ~allowedExtension(filename) THEN Refused(400)
             ELSE IF ~passesPrefixCheck(filePath) THEN Refused(403)
             ELSE IF ~request.exists THEN Refused(404)
             ELSE Served(filePath)
    /\ UNCHANGED request
    /\ UNCHANGED nonServeVars

\* mapApi.ts, loadMapFile(filename): every throw ends in the 500 response.
LoadMapFile ==
    /\ request.op = "loadMapFile"
    /\ response = NoResponse
    /\ LET filename == request.filename
           filePath == pathJoin(MAP_DIRECTORY, filename)
       IN  response' =
             IF ~passesPrefixCheck(filePath) THEN Refused(500)
             ELSE IF ~request.exists THEN Refused(500)
             ELSE IF allowedExtension(filename) THEN Served(filePath)
             ELSE Refused(500)
    /\ UNCHANGED request
    /\ UNCHANGED nonServeVars

ServeNext == MapServerGet \/ Handler \/ LoadMapFile

(***************************************************************************)
(* Specifications: the client alone, one call of parsePgmFile alone, the   *)
(* transforms alone and one call of parseYamlMetadata alone.               *)
(***************************************************************************)
Init == WsInit /\ PgmIdle /\ CoordIdle /\ YamlIdle /\ LoaderIdle /\ HookIdle /\ AppIdle /\ PointIdle /\ ServeIdle

Spec == Init /\ [][Next]_vars

InitPgm == PgmInit /\ WsInit /\ CoordIdle /\ YamlIdle /\ LoaderIdle /\ HookIdle /\ AppIdle /\ PointIdle /\ ServeIdle

SpecPgm == InitPgm /\ [][PgmNext]_vars

InitCoord == CoordInit /\ WsInit /\ PgmIdle /\ YamlIdle /\ LoaderIdle /\ HookIdle /\ AppIdle /\ PointIdle /\ ServeIdle

SpecCoord == InitCoord /\ [][CoordNext]_vars

InitYaml == YamlInit /\ WsInit /\ PgmIdle /\ CoordIdle /\ LoaderIdle /\ HookIdle /\ AppIdle /\ PointIdle /\ ServeIdle

SpecYaml == InitYaml /\ [][YamlNext]_vars

InitLoader == LoaderInit /\ WsInit /\ PgmIdle /\ CoordIdle /\ HookIdle /\ AppIdle /\ PointIdle /\ ServeIdle

SpecLoader == InitLoader /\ [][LoaderNext]_vars

InitHook == HookInit /\ WsInit /\ PgmIdle /\ CoordIdle /\ YamlIdle /\ LoaderIdle /\ AppIdle /\ PointIdle /\ ServeIdle

SpecHook == InitHook /\ [][HookNext]_vars

InitApp == AppInit /\ WsInit /\ CoordIdle /\ YamlIdle /\ LoaderIdle /\ HookIdle /\ PointIdle /\ ServeIdle

SpecApp == InitApp /\ [][AppNext]_vars

InitPoint ==
    PointInit /\ WsInit /\ PgmIdle /\ CoordIdle /\ YamlIdle /\ LoaderIdle /\ HookIdle /\ AppIdle /\ ServeIdle

SpecPoint == InitPoint /\ [][PointNext]_vars

InitServe ==
    ServeInit /\ WsInit /\ PgmIdle /\ CoordIdle /\ YamlIdle /\ LoaderIdle /\ HookIdle /\ AppIdle /\ PointIdle

SpecServe == InitServe /\ [][ServeNext]_vars

\* Every read the browser started ends with its load or its error event,
\* and a timer that was set fires.
SpecPgmLive == SpecPgm /\ WF_vars(PgmNext)

\* A timer set by setTimeout fires: nothing in the client clears it.
SpecWsLive == Spec /\ WF_vars(TimerFires)

(***************************************************************************)
(* Claims about ROSWebSocketService.                                       *)
(***************************************************************************)

\* C1: after disconnect(), until the caller calls connect() again, the client
\* is Disconnected (this.ws is null, so no transport was opened since), and
\* no reconnect timer is pending.
C1_DisconnectIsFinal ==
    hist.afterDisconnect => (ws = "NULL" /\ timers = 0)

\* C2: once disconnect() was called while the client's only connection attempt
\* was still CONNECTING, no onConnection listener is invoked until the caller
\* calls connect() again.
C2_NoConnectionAfterCancel ==
    ~(hist.cancelledConnecting /\ obs.ev = "open" /\ obs.fired = "connection")

\* C3: the number of connection attempts made by reconnect timers since the
\* last successful open never exceeds maxReconnectAttempts.
C3_AttemptsBounded ==
    hist.autoSinceOpen <= maxReconnectAttempts

\* C9 (as stated): whatever the connection state of the subscribe calls, a
\* frame on topic "a" never invokes a handler other than the one given by the
\* last subscribe("a", ...) call.
C9_LastCallWins ==
    (obs.ev = "message" /\ obs.topic = "a" /\ hist.lastCall # NoHandler)
        => obs.handler \in {hist.lastCall, NoHandler}

\* C9 (amended): a frame on topic "a" invokes exactly the handler given by the
\* last subscribe("a", ...) call that was made while the transport was open.
C9_LastOpenCallWins ==
    (obs.ev = "message" /\ obs.topic = "a" /\ hist.lastOpenCall # NoHandler)
        => obs.handler = hist.lastOpenCall

\* A frame on "a" went to the handler that replaced an earlier one.
C9_Witness ==
    /\ obs.ev = "message" /\ obs.topic = "a"
    /\ hist.replaced /\ hist.lastOpenCall = "h2" /\ obs.handler = "h2"

\* C10 (as stated): subscribe records the handler in every connection state.
C10_AlwaysRecords ==
    obs.ev = "subscribe" => subscribers[obs.topic] = obs.arg

\* C10 (amended): subscribe records the handler and sends the subscribe frame
\* when the transport is open; when it is not, it leaves the registry as it
\* was and sends nothing.
C10_RecordsWhenOpen ==
    [][obs'.ev = "subscribe" =>
        IF isConnected
        THEN /\ subscribers' = [subscribers EXCEPT ![obs'.topic] = obs'.arg]
             /\ \E ty \in MessageTypes :
                    obs'.out = {[op |-> "subscribe", topic |-> obs'.topic, type |-> ty]}
        ELSE /\ subscribers' = subscribers
             /\ obs'.out = {}]_vars

\* subscribe was called while the transport was not open, and its handler is
\* not in the registry.
C10_Witness ==
    obs.ev = "subscribe" /\ obs.out = {} /\ subscribers[obs.topic] # obs.arg

\* The calls that send a control frame.
FrameCalls == {"subscribe", "publish", "advertise"}

\* C11: publish, advertise or subscribe called while the transport is not
\* open sends no frame and changes nothing, and its frame is never sent
\* later: a frame is only ever sent by the call being made, while the
\* transport is open, and it is the frame of that call.
C11_DroppedNotQueued ==
    [][/\ (obs'.ev \in FrameCalls /\ ~isConnected)
            => /\ obs'.out = {}
               /\ UNCHANGED <<ws, orphans, reconnectAttempts, timers, subscribers,
                              connectionCallbacks, disconnectionCallbacks>>
       /\ obs'.out # {}
            => /\ isConnected
               /\ obs'.ev \in FrameCalls
               /\ \E t \in Topics, ty \in MessageTypes :
                     obs'.out = {[op |-> obs'.ev, topic |-> t, type |-> ty]}]_vars

\* advertise was called while the closed socket awaits its reconnect timer.
C11_Witness ==
    obs.ev = "advertise" /\ obs.out = {} /\ ws = "CLOSED" /\ timers = 1

\* C12 as claimed: a frame that parses to {topic, msg} invokes the handler
\* registered for its topic, any other frame invokes none, and the registry,
\* the listener lists and the reconnect counter are unchanged.
C12_DispatchByTopic ==
    [][obs'.ev = "message"
         => /\ obs'.handler = IF obs'.topic \in Topics THEN subscribers[obs'.topic] ELSE NoHandler
            /\ UNCHANGED <<subscribers, connectionCallbacks, disconnectionCallbacks,
                           reconnectAttempts>>]_vars

\* C12 as amended: the same for a frame whose topic is not empty; a frame
\* with an empty topic invokes no handler.
C12_DispatchByNonEmptyTopic ==
    [][obs'.ev = "message"
         => /\ obs'.handler = IF obs'.topic \in Topics /\ obs'.topic # ""
                              THEN subscribers[obs'.topic] ELSE NoHandler
            /\ UNCHANGED <<subscribers, connectionCallbacks, disconnectionCallbacks,
                           reconnectAttempts>>]_vars

\* A frame for topic "" arrived while a handler was registered for "".
C12_Witness ==
    obs.ev = "message" /\ obs.topic = "" /\ subscribers[""] = "h1" /\ obs.handler = NoHandler

\* C13: at most one socket of the client is connecting or open.
C13_OneTransport == LiveSockets <= 1

\* The step is the close event of a socket that was open.
ClosesOpenSocket ==
    /\ obs'.ev = "close"
    /\ \/ ws = "OPEN" /\ ws' = "CLOSED"
       \/ orphans'["OPEN"] < orphans["OPEN"]

\* C14: when an open connection closes and fewer than maxReconnectAttempts
\* attempts have been used, exactly one reconnect timer is set for that
\* close and the attempt is counted; a timer that is pending eventually
\* fires and calls connect().
C14_ReconnectScheduled ==
    /\ [][(ClosesOpenSocket /\ reconnectAttempts < maxReconnectAttempts)
            => (timers' = timers + 1 /\ reconnectAttempts' = reconnectAttempts + 1)]_vars
    /\ [][timers' < timers => (timers' = timers - 1 /\ obs'.ev = "timer" /\ ws' = "CONNECTING")]_vars
    /\ (timers > 0) ~> (obs.ev = "timer" /\ ws = "CONNECTING")

\* The connection that served a subscription was lost, and the timer set
\* for its close has called connect().
C14_Witness ==
    /\ obs.ev = "timer" /\ ws = "CONNECTING" /\ subscribers["a"] = "h1"
    /\ reconnectAttempts = 1 /\ hist.autoSinceOpen = 1 /\ Unclosed = 1 /\ timers = 0

C4_LengthIsWidthTimesHeight ==
    pgmPromise.state = "resolved"
        => Len(pgmPromise.value.data) = pgmPromise.value.width * pgmPromise.value.height

\* The primary decode of a header declaring 4 x 4 cells followed by 11 bytes.
C4_Witness ==
    /\ pgmPromise.state = "resolved" /\ pgmPromise.by = "primary"
    /\ pgmFile.kind = "plain" /\ pgmFile.payload = 11
    /\ pgmPromise.value.width = 4 /\ Len(pgmPromise.value.data) = 16

\* The strategies after which nothing else is tried.
LastStrategies == {"imgError", "timeout", "canvasSetup"}

\* C5: the promise of parsePgmFile is never rejected and is eventually
\* resolved, whatever reads fail; when every strategy before it failed, the
\* value is the placeholder.
C5_AlwaysResolved ==
    /\ [](pgmPromise.state # "rejected")
    /\ [](pgmPromise.by \in LastStrategies => pgmPromise.value = createDummyMap)
    /\ <>(pgmPromise.state = "resolved")

\* Every read failed and the timer of the canvas fallback resolved the promise.
C5_Witness ==
    pgmPromise.state = "resolved" /\ pgmPromise.by = "timeout" /\ pgmImg = "loading"

\* C6: when no read fails, parsePgmFile gives back the raster a well-formed
\* file encodes.
C6_RoundTrip ==
    (pgmFile.kind = "wellformed" /\ pgmPromise.state = "resolved" /\ pgmPromise.by \in {"size", "primary"})
        => pgmPromise.value = pgmFile.grid

\* C15: every raster parsePgmFile resolves its promise with has width > 0
\* and height > 0.
C15_PositiveDimensions ==
    pgmPromise.state = "resolved"
        => (pgmPromise.value.width > 0 /\ pgmPromise.value.height > 0)

\* The files whose header is valid, the cells it declares and the payload
\* that follows it.
ValidHeaderKinds == {"wellformed", "plain", "comment", "spaced"}

DeclaredWidth(file) == IF file.kind = "wellformed" THEN file.grid.width ELSE 4

DeclaredHeight(file) == IF file.kind = "wellformed" THEN file.grid.height ELSE 4

PayloadOf(file) == SubSeq(file.bytes, Len(file.bytes) - file.payload + 1, Len(file.bytes))

\* C16: on the primary decode of a valid header declaring width and height,
\* followed by n payload bytes: cells[i] = payload[i] for i < min(n,
\* width * height), cells[i] = 255 for n <= i < width * height, and the
\* payload bytes beyond width * height are ignored.
C16_CellsArePayload ==
    (pgmPromise.state = "resolved" /\ pgmPromise.by = "primary" /\ pgmFile.kind \in ValidHeaderKinds)
        => /\ pgmPromise.value.width = DeclaredWidth(pgmFile)
           /\ pgmPromise.value.height = DeclaredHeight(pgmFile)
           /\ pgmPromise.value.data =
                [i \in 1..(DeclaredWidth(pgmFile) * DeclaredHeight(pgmFile)) |->
                    IF i <= pgmFile.payload THEN PayloadOf(pgmFile)[i] ELSE White]

\* The malformed files: empty, below 20 bytes, fewer than three header
\* lines, a marker other than P5, a dimensions line of one or three tokens,
\* width or maxval that is not a number.
MalformedKinds ==
    {"empty", "small", "noheader", "twolines", "marker", "onedim", "threedims", "alpha", "badmax"}

\* C17: for each class of malformed input, parsePgmFile resolves its
\* promise with exactly the placeholder (100 x 100, 10000 cells equal to
\* -1) and never rejects it.
C17_MalformedGivesPlaceholder ==
    /\ pgmPromise.state # "rejected"
    /\ (pgmFile.kind \in MalformedKinds /\ pgmPromise.state = "resolved")
        => /\ pgmPromise.value.width = 100
           /\ pgmPromise.value.height = 100
           /\ pgmPromise.value.data = [i \in 1..10000 |-> 0 - 1]

\* The same when the FileReader reads the file: the size checks and the
\* primary decode.
C17_OnPrimaryPath ==
    (pgmFile.kind \in MalformedKinds /\ pgmPromise.state = "resolved"
            /\ pgmPromise.by \in {"size", "primary"})
        => /\ pgmPromise.value.width = 100
           /\ pgmPromise.value.height = 100
           /\ pgmPromise.value.data = [i \in 1..10000 |-> 0 - 1]

(***************************************************************************)
(* Claims about the transforms.                                            *)
(***************************************************************************)

Abs(n) == IF n < 0 THEN 0 - n ELSE n

InRaster(pt, m) == pt.x >= 0 /\ pt.x < m.width /\ pt.y >= 0 /\ pt.y < m.height

\* C8: for a pixel within the raster, worldToPixel(pixelToWorld(px, py))
\* differs from (px, py) by at most 1 in each coordinate, and is (px, py)
\* when the resolution divides the world offsets evenly.
C8_RoundTrip ==
    (applied = <<"pixelToWorld", "worldToPixel">> /\ InRaster(given, mapData)) =>
        /\ Abs(point.x - given.x) <= 1
        /\ Abs(point.y - given.y) <= 1
        /\ ((operand[1] - mapData.origin[1]) % mapData.resolution = 0
                /\ (operand[2] - mapData.origin[2]) % mapData.resolution = 0)
              => (point.x = given.x /\ point.y = given.y)

\* The round trip of the bottom-right pixel of a 4 x 10 raster.
C8_Witness ==
    /\ applied = <<"pixelToWorld", "worldToPixel">>
    /\ mapData.width = 4 /\ mapData.height = 10 /\ mapData.resolution = 5
    /\ given.x = 3 /\ given.y = 9 /\ point.x = 3 /\ point.y = 9
    /\ operand = <<mapData.origin[1] + 15, mapData.origin[2] + 5>>

NumericCount(comps) == Cardinality({i \in DOMAIN comps : comps[i].numeric})

\* reader.onload has settled the promise for a text with an origin line.
ReadOrigin == yamlPromise.by = "reader" /\ yamlFile.kind = "origin"

\* C19 as stated: origin is set exactly when the origin value, bracketed or
\* bare, has at least two numeric components, and theta is 0 when the value
\* has no third component.
C19_OriginFromTwoNumbers ==
    ReadOrigin =>
        /\ yamlPromise.state = "resolved"
        /\ yamlPromise.value.origin.set <=> NumericCount(yamlFile.comps) >= 2
        /\ (yamlPromise.value.origin.set /\ Len(yamlFile.comps) < 3) =>
               yamlPromise.value.origin.val[3] = 0

\* C19 amended: origin is set exactly when the origin value, bracketed or
\* bare, has at least two components and every one of them is numeric; it
\* is then the first three components, with theta 0 when the value has no
\* third component. One component that is not numeric, wherever it stands,
\* leaves origin unset.
C19_OriginFromAllNumbers ==
    ReadOrigin =>
        LET c == yamlFile.comps
            ok == Len(c) >= 2 /\ \A i \in 1..Len(c) : c[i].numeric
        IN /\ yamlPromise.state = "resolved"
           /\ yamlPromise.value.origin =
                  IF ok THEN Set(<<c[1].val, c[2].val, IF Len(c) >= 3 THEN c[3].val ELSE 0>>)
                  ELSE Unset

\* A bare value of two numbers has set origin with theta 0.
C19_Witness ==
    /\ ReadOrigin
    /\ yamlFile.fmt = "bare"
    /\ Len(yamlFile.comps) = 2
    /\ yamlPromise.value.origin = Set(<<100, 0 - 150, 0>>)

\* The fields a text leaves unset: a resolution that is absent or not a
\* number, an origin that is absent.
MissingUnset ==
    /\ yamlFile.res \in {"none", "bad"} => yamlPromise.value.resolution = Unset
    /\ yamlFile.kind # "origin" => yamlPromise.value.origin = Unset

\* C20 as stated: the promise is rejected only when the file could not be
\* read, and every text that reader.onload is given (empty, blank, comments
\* only, unknown keys only, ...) resolves it with the missing fields unset.
C20_EveryTextResolves ==
    /\ yamlPromise.state = "rejected" => yamlPromise.by # "reader"
    /\ yamlPromise.by = "reader" => yamlPromise.state = "resolved" /\ MissingUnset

\* C20 amended: when reader.onload is given the text, the promise is
\* rejected exactly when the text is empty or blank, and is otherwise
\* resolved with the missing fields unset. When the first read failed, the
\* promise is rejected if the second read fails or yields an empty text,
\* and is otherwise resolved with resolution 0.05 and origin [0, 0, 0]
\* whatever the text holds.
C20_BlankTextRejects ==
    /\ yamlPromise.by = "reader" =>
           IF yamlFile.kind \in {"empty", "blank"}
           THEN yamlPromise.state = "rejected"
           ELSE yamlPromise.state = "resolved" /\ MissingUnset
    /\ yamlPromise.by = "textReader" =>
           IF yamlFile.bytes = <<>>
           THEN yamlPromise.state = "rejected"
           ELSE yamlPromise.state = "resolved" /\ yamlPromise.value = FallbackMetadata
    /\ yamlPromise.by = "textReaderError" => yamlPromise.state = "rejected"
    /\ yamlPc = "done" <=> yamlPromise.state # "pending"

\* reader.onload was given a blank text.
C20_Witness ==
    /\ yamlFile.kind = "blank"
    /\ yamlPromise.by = "reader"
    /\ yamlPromise.state = "rejected"

(***************************************************************************)
(* Claims about loadMapFromFiles and loadMap.                              *)
(***************************************************************************)
\* C21: once parseYamlMetadata has settled, rejected or resolved with
\* fields unset, the loader delivers the map, with resolution 0.05 and
\* origin [0, 0, 0] for each field the metadata does not set.
C21_MapDespiteMetadata ==
    (loaderPc = "done" /\ yamlPromise.state # "pending") =>
        /\ finalMapData.state = "delivered"
        /\ ~yamlPromise.value.resolution.set => finalMapData.resolution = PgmDefaults.resolution
        /\ ~yamlPromise.value.origin.set => finalMapData.origin = PgmDefaults.origin

\* C22: every map a loader delivers has resolution > 0.
C22_ResolutionPositive ==
    finalMapData.state = "delivered" => finalMapData.resolution > 0

(***************************************************************************)
(* Claims about the listeners and the subscriptions across reconnections.  *)
(***************************************************************************)
\* C23: the disconnection listeners are never invoked twice without an
\* invocation of the connection listeners in between: when a WebSocket of
\* the service closes, the listeners invoked last were not the
\* disconnection listeners.
C23_NotificationsAlternate ==
    [][(hookWs # "CLOSED" /\ hookWs' = "CLOSED") => hookNotified # "disconnection"]_vars

\* C26: when the WebSocket a reconnect timer created is open, a subscribe
\* frame was sent on it for every topic the registry holds a handler for.
C26_ResubscribedAfterReconnect ==
    (hookAuto /\ hookWs = "OPEN") => hookSubscribers \subseteq hookSent

\* C24: pixelToWorld(worldToPixel(wx, wy)) differs from the point
\* worldToPixel divided by less than one resolution in each axis: it is at
\* or left of it in x and at or above it in y; without a rounding error in
\* worldToPixel that point is (wx, wy).
C24_InverseUpToTruncation ==
    applied = <<"worldToPixel", "pixelToWorld">> =>
        /\ point.x <= operand[1] /\ operand[1] - point.x < mapData.resolution
        /\ point.y >= operand[2] /\ point.y - operand[2] < mapData.resolution
        /\ operand = <<given.x, given.y>> =>
               /\ Abs(point.x - given.x) < mapData.resolution
               /\ Abs(point.y - given.y) < mapData.resolution

\* A world point off the grid in both axes came back truncated.
C24_Witness ==
    /\ applied = <<"worldToPixel", "pixelToWorld">>
    /\ operand = <<given.x, given.y>>
    /\ point.x < given.x /\ point.y > given.y
    /\ mapData.resolution = 5

\* The world point worldToPixel divided lies in the rectangle the raster
\* covers.
InCoverage(w, m) ==
    /\ m.origin[1] <= w[1] /\ w[1] < m.origin[1] + m.width * m.resolution
    /\ m.origin[2] <= w[2] /\ w[2] < m.origin[2] + m.height * m.resolution

C25_InstalledMapIsGrid ==
    localMapData.set =>
        /\ ~isNaN(localMapData.width) /\ ~isNaN(localMapData.height)
        /\ Len(localMapData.data) = localMapData.width.val * localMapData.height.val
        /\ (pgmFile.kind \in ValidHeaderKinds /\ pgmFile.payload > 0)
              => localMapData.data[1] = PayloadOf(pgmFile)[1]

(***************************************************************************)
(* Claims about PointDataService.                                          *)
(***************************************************************************)
\* C29: once both addPointToMap calls have completed, the stored file holds
\* the point of each, in the entry of the map it was added to.
C29_BothPointsStored ==
    (\A c \in PointCallers : pointCalls[c].pc = "done") =>
        \A c \in PointCallers :
            /\ pointFile[pointCalls[c].mapName].present
            /\ PointOf(c) \in pointFile[pointCalls[c].mapName].points

(***************************************************************************)
(* Claims about serving map files.                                         *)
(***************************************************************************)
\* C30: whatever the filename, the file an operation reads is located
\* inside MAP_DIRECTORY; a filename that resolves outside it is refused
\* and nothing is read.
C30_ReadsOnlyInsideMapDirectory ==
    response.read # NoRead => InsideMapDirectory(response.read)

====
